---- MODULE Spec2Model ----
(***************************************************************************)
(* Hypersaline pH Custom Buffer Calculator (buffer_web/app.py).            *)
(*                                                                         *)
(* Numbers.  The program computes in binary floating point; the model      *)
(* computes in exact fixed point, every quantity an integer count of a     *)
(* unit fixed per kind of quantity:                                        *)
(*   molar masses (J3..J13, D14..D17, Q10)  1e-5 g/mol                      *)
(*   salt and ion molalities                1e-4/3 mmol/kgw               *)
(*   salt masses                            1e-12/3 g/kgw                  *)
(*   titrant volumes                        2e-9 mL                        *)
(*   pH                                     1e-6                           *)
(* The unit of a molality is a third of the fourth decimal place and the   *)
(* unit of a volume a fifth of the eighth, so that round(x, 4) and         *)
(* round(x, 8) really round and never meet a tie.  A division by a power   *)
(* of ten whose result stays on the grid is a change of unit.              *)
(***************************************************************************)
EXTENDS Integers, Sequences, FiniteSets, TLC

VARIABLES
    pc,             \* position of the modelled call
    ion_mmol_kgw,   \* build_recipe: argument ion_mmol_kgw
    hydration,      \* build_recipe: argument hydration (a dict, keys may be absent)
    locals,         \* build_recipe: its locals C12..C18, D12..D18, E12..E18 at return
    recipe,         \* build_recipe: the dict it returns
    rows,           \* calculate: the rows run_phreeqc returned
    NaOH_vol,       \* calculate: float(d['NaOH_vol'])
    idx,            \* calculate: the position of "for row in rows"
    react_count,    \* calculate: local react_count
    naoh_vol,       \* calculate: local naoh_vol
    titration,      \* calculate: local titration
    handler,        \* the route a request is posted to
    d,              \* the request's JSON payload, d = request.get_json()
    solver,         \* what the PHREEQC environment does when run_phreeqc is called
    exc,            \* the exception the handler caught
    arith,          \* the arithmetic the handler completed, in order
    phreeqc_calls,  \* the calls of run_phreeqc made
    pqi,            \* calculate: the script build_phreeqc_input returned
    status,         \* the HTTP status of the response
    response,       \* the dict handed to jsonify
    boron_row,      \* b4b3_ratio: argument row
    boron_unit,     \* b4b3_ratio: the unit of the row's molalities
    boron_ratio,    \* b4b3_ratio: the value returned
    calcs,          \* concurrent calculations: the locals of each
    module          \* concurrent calculations: the module-level objects

recipeVars  == <<ion_mmol_kgw, hydration, locals, recipe>>
loopVars    == <<rows, NaOH_vol, idx, react_count, naoh_vol, titration>>
requestVars == <<handler, d, solver, exc, arith, phreeqc_calls, pqi, status, response>>
ratioVars   == <<boron_row, boron_unit, boron_ratio>>
concVars    == <<calcs, module>>
vars == <<pc, recipeVars, loopVars, requestVars, ratioVars, concVars>>

None == "None"

(***************************************************************************)
(* Arithmetic helpers                                                      *)
(***************************************************************************)
\* Python's max(a, b) on numbers.
Max(a, b) == IF b > a THEN b ELSE a

Abs(a) == IF a < 0 THEN 0 - a ELSE a

\* round(x, n): x to the nearest multiple of the quantum q (q = the n-th
\* decimal place in x's unit), an exact tie going to the even multiple.
RoundTo(x, q) ==
    LET r  == x % q
        lo == x - r
    IN  IF 2 * r < q THEN lo
        ELSE IF 2 * r > q THEN lo + q
        ELSE IF (lo \div q) % 2 = 0 THEN lo ELSE lo + q

\* a / b in integers: the quotient to the nearest unit
FDiv(a, b) ==
    LET n == IF b < 0 THEN 0 - a ELSE a
        m == Abs(b)
    IN  (n \div m) + (IF 2 * (n % m) >= m THEN 1 ELSE 0)

Range(seq) == {seq[i] : i \in DOMAIN seq}

\* dict.get(key, default)
Get(dict, key, default) == IF key \in DOMAIN dict THEN dict[key] ELSE default

(***************************************************************************)
(* Units                                                                   *)
(***************************************************************************)
\* round(C, 4): the fourth decimal of a molality, in molality units
MmolQuantum == 3
\* round(E, 4): the fourth decimal of a mass in g, in mass units
GramQuantum == 300000000
\* round(D, 3): the third decimal of a molar mass, in 1e-5 g/mol
MwQuantum == 100
\* round(naoh_vol + step_ml, 8): the eighth decimal of a volume in mL
VolQuantum == 5
\* round(pH, 5): the fifth decimal of a pH
pHQuantum == 10

(***************************************************************************)
(* Module constants  (app.py lines 33-58)                                  *)
(***************************************************************************)
Q10 == 1801528
J3  == 9521100
J4  == J3 + 6 * Q10
J6  == 11098400
J7  == J6 + 2 * Q10
J9  == 12036600
J10 == J9 + 7 * Q10
J12 == 14204000
J13 == 32220000
D14 == 4239400
D16 == 5844000
D17 == 7455000

(***************************************************************************)
(* build_recipe  (app.py lines 115-195)                                    *)
(***************************************************************************)
\* Flags (hidden!A18, A15)
A18_on_equal(ion) == IF ion.SO4 >= ion.Mg THEN 1 ELSE 0
A18(ion) == IF ion.SO4 > ion.Mg THEN 1 ELSE 0
A15(ion) == IF A18(ion) = 1 THEN 0 ELSE 1

\* Salt mmol/kgw (hidden!C12:C18)
C12_unflagged(ion) == Max(0, ion.Mg - ion.SO4)
C12(ion) == Max(0, ion.Mg - ion.SO4 * A15(ion))
C13(ion) == Max(0, ion.Ca)
C14(ion) == Max(0, ion.Li)
C15(ion) == Max(0, ion.SO4) * A15(ion)
C16_unclamped(ion) == ion.Na - 2 * ion.SO4 * A18(ion)
C16_one_Na_per_SO4(ion) == Max(0, ion.Na - ion.SO4 * A18(ion))
C16(ion) == Max(0, ion.Na - 2 * ion.SO4 * A18(ion))
C17(ion) == Max(0, ion.K)
C18_unflagged(ion) == Max(0, ion.SO4)
C18(ion) == Max(0, ion.SO4) * A18(ion)

is_anhydrous(hyd, salt_key) == Get(hyd, salt_key, "Anhydrous") = "Anhydrous"

\* Salt MW (hidden!D12:D18)
D12(hyd) == IF is_anhydrous(hyd, "MgCl2")  THEN J3  ELSE J4
D13(hyd) == IF is_anhydrous(hyd, "CaCl2")  THEN J6  ELSE J7
D15(hyd) == IF is_anhydrous(hyd, "MgSO4")  THEN J9  ELSE J10
D18(hyd) == IF is_anhydrous(hyd, "Na2SO4") THEN J12 ELSE J13

\* g/kgw (hidden!E12:E18): D * C / 1000, the division a change of unit
E12(ion, hyd) == D12(hyd) * C12(ion)
E13(ion, hyd) == D13(hyd) * C13(ion)
E14(ion)      == D14 * C14(ion)
E15(ion, hyd) == D15(hyd) * C15(ion)
E16(ion)      == D16 * C16(ion)
E17(ion)      == D17 * C17(ion)
E18(ion, hyd) == D18(hyd) * C18(ion)

\* One entry of the returned dict.
Entry(C, E, D, form) ==
    [mmol |-> RoundTo(C, MmolQuantum), g |-> RoundTo(E, GramQuantum),
     mw |-> RoundTo(D, MwQuantum), form |-> form]

\* The locals of build_recipe when it returns.
build_recipe_locals(ion, hyd) ==
    [mmol |-> [MgCl2 |-> C12(ion), CaCl2 |-> C13(ion), LiCl |-> C14(ion),
               MgSO4 |-> C15(ion), NaCl |-> C16(ion), KCl |-> C17(ion),
               Na2SO4 |-> C18(ion)],
     mw   |-> [MgCl2 |-> D12(hyd), CaCl2 |-> D13(hyd), LiCl |-> D14,
               MgSO4 |-> D15(hyd), NaCl |-> D16, KCl |-> D17,
               Na2SO4 |-> D18(hyd)],
     g    |-> [MgCl2 |-> E12(ion, hyd), CaCl2 |-> E13(ion, hyd), LiCl |-> E14(ion),
               MgSO4 |-> E15(ion, hyd), NaCl |-> E16(ion), KCl |-> E17(ion),
               Na2SO4 |-> E18(ion, hyd)]]

\* The salt entries of the dict build_recipe returns (lines 186-193).
build_recipe(ion, hyd) ==
    [MgCl2  |-> Entry(C12(ion), E12(ion, hyd), D12(hyd), Get(hyd, "MgCl2", "Anhydrous")),
     CaCl2  |-> Entry(C13(ion), E13(ion, hyd), D13(hyd), Get(hyd, "CaCl2", "Anhydrous")),
     LiCl   |-> Entry(C14(ion), E14(ion), D14, "Anhydrous"),
     MgSO4  |-> Entry(C15(ion), E15(ion, hyd), D15(hyd), Get(hyd, "MgSO4", "Anhydrous")),
     NaCl   |-> Entry(C16(ion), E16(ion), D16, "Anhydrous"),
     KCl    |-> Entry(C17(ion), E17(ion), D17, "Anhydrous"),
     Na2SO4 |-> Entry(C18(ion), E18(ion, hyd), D18(hyd), Get(hyd, "Na2SO4", "Anhydrous"))]

SaltNames == {"MgCl2", "CaCl2", "LiCl", "MgSO4", "NaCl", "KCl", "Na2SO4"}
IonNames  == {"Na", "K", "Li", "Mg", "Ca", "SO4"}

(***************************************************************************)
(* Inputs of build_recipe                                                  *)
(***************************************************************************)
\* Na, Mg and SO4 molalities range over -MaxNeg..MaxIon molality units.
MaxIon == 5
MaxNeg == 2
\* K, Li and Ca are passed through a clamp each.
PassThrough == {-1, 2}

IonInputs ==
    [Na : (0 - MaxNeg)..MaxIon, Mg : (0 - MaxNeg)..MaxIon, SO4 : (0 - MaxNeg)..MaxIon,
     K : PassThrough, Li : PassThrough, Ca : PassThrough]

HydSalts == {"MgCl2", "CaCl2", "MgSO4", "Na2SO4"}

\* The UI's dropdown value for the hydrated form of each salt.
HydrateName ==
    [MgCl2 |-> "Hexahydrate", CaCl2 |-> "Dihydrate",
     MgSO4 |-> "Heptahydrate", Na2SO4 |-> "Decahydrate"]

\* Every combination of the dropdown values; then dicts that lack keys or
\* carry another string.
HydInputs ==
    {[k \in HydSalts |-> IF k \in S THEN HydrateName[k] ELSE "Anhydrous"] :
        S \in SUBSET HydSalts}
    \cup {[k \in {"MgCl2"} |-> "Hexahydrate"],
          [k \in {"Na2SO4", "MgSO4"} |-> "Heptahydrate"],
          [k \in {"CaCl2"} |-> "anhydrous"]}

\* The variables of a part of the program that a specification leaves out.
RecipeIdle ==
    ion_mmol_kgw = None /\ hydration = None /\ locals = None /\ recipe = None
LoopIdle ==
    /\ rows = <<>> /\ NaOH_vol = 0 /\ idx = 0
    /\ react_count = 0 /\ naoh_vol = 0 /\ titration = <<>>

RequestIdle ==
    /\ handler = None /\ d = None /\ solver = None /\ exc = None
    /\ arith = <<>> /\ phreeqc_calls = 0 /\ pqi = None
    /\ status = 0 /\ response = None

RatioIdle == boron_row = None /\ boron_unit = None /\ boron_ratio = None
ConcIdle == calcs = None /\ module = None

NoLocals == [mmol |-> None, mw |-> None, g |-> None]

InitRecipe ==
    /\ pc = "build_recipe"
    /\ ion_mmol_kgw \in IonInputs
    /\ hydration \in HydInputs
    /\ locals = NoLocals
    /\ recipe = None
    /\ LoopIdle
    /\ RequestIdle
    /\ RatioIdle
    /\ ConcIdle

\* A call of build_recipe(ion_mmol_kgw, hydration).
BuildRecipe ==
    /\ pc = "build_recipe"
    /\ locals' = build_recipe_locals(ion_mmol_kgw, hydration)
    /\ recipe' = build_recipe(ion_mmol_kgw, hydration)
    /\ pc' = "returned"
    /\ UNCHANGED <<ion_mmol_kgw, hydration>>
    /\ UNCHANGED loopVars
    /\ UNCHANGED requestVars
    /\ UNCHANGED <<ratioVars, concVars>>

NextRecipe == BuildRecipe

SpecRecipe == InitRecipe /\ [][NextRecipe]_vars

(***************************************************************************)
(* b4b3_ratio (lines 443-452)                                              *)
(*                                                                         *)
(* The molalities of a row are integer counts of one unit, 1 mol/kgw or    *)
(* 5e-31 mol/kgw (half of the function's epsilon).  A ratio is the         *)
(* fraction <<numerator, denominator>>.                                    *)
(***************************************************************************)
KeyL == "m_B(OH)3(mol/kgw)"
KeyM == "m_B(OH)4-(mol/kgw)"
KeyN == "m_B3O3(OH)4-(mol/kgw)"
KeyO == "m_B4O5(OH)4-2(mol/kgw)"
KeyP == "m_MgB(OH)4+(mol/kgw)"
KeyQ == "m_CaB(OH)4+(mol/kgw)"
BoronKeys == {KeyL, KeyM, KeyN, KeyO, KeyP, KeyQ}

MolalityUnits == {"mol/kgw", "5e-31 mol/kgw"}

\* row.get(key, 0) or 0: an absent key, None and 0 all give 0
get_or_0(row, key) ==
    IF key \notin DOMAIN row THEN 0
    ELSE IF row[key] = <<>> THEN 0
    ELSE row[key][1]

\* 1e-30 in the unit, rounded down: an integer exceeds 1e-30 exactly when it
\* exceeds this.
eps_floor(unit) == IF unit = "mol/kgw" THEN 0 ELSE 2

b4b3_num(row) ==
    LET M == get_or_0(row, KeyM)
        N == get_or_0(row, KeyN)
        O == get_or_0(row, KeyO)
        P == get_or_0(row, KeyP)
        Q == get_or_0(row, KeyQ)
    IN  M + P + Q + N + O + O

b4b3_den(row) ==
    LET L == get_or_0(row, KeyL)
        N == get_or_0(row, KeyN)
        O == get_or_0(row, KeyO)
    IN  L + N + N + O + O

\* "den > 1e-30"
den_is_nonzero(den, unit) == den # 0
den_exceeds_eps(den, unit) == den > eps_floor(unit)

\* 0.0
ZeroRatio == <<0, 1>>

b4b3_ratio(row, unit) ==
    IF den_exceeds_eps(b4b3_den(row), unit)
    THEN <<b4b3_num(row), b4b3_den(row)>>
    ELSE ZeroRatio

\* round(ratio, 7), in 1e-7
round_ratio(ratio) == FDiv(10000000 * ratio[1], ratio[2])

(***************************************************************************)
(* Inputs of b4b3_ratio                                                    *)
(***************************************************************************)
\* Each of the six fields is absent, None, or 0..MaxMolality units.
MaxMolality == 2
FieldValues == {<<>>} \cup {<<v>> : v \in 0..MaxMolality}
BoronRows ==
    UNION {[K -> FieldValues] : K \in SUBSET BoronKeys}

InitRatio ==
    /\ pc = "b4b3_ratio"
    /\ boron_row \in BoronRows
    /\ boron_unit \in MolalityUnits
    /\ boron_ratio = None
    /\ RecipeIdle
    /\ LoopIdle
    /\ RequestIdle
    /\ ConcIdle

\* A call of b4b3_ratio(row).
B4b3Ratio ==
    /\ pc = "b4b3_ratio"
    /\ boron_ratio' = b4b3_ratio(boron_row, boron_unit)
    /\ pc' = "ratio_returned"
    /\ UNCHANGED <<boron_row, boron_unit>>
    /\ UNCHANGED <<recipeVars, loopVars, requestVars, concVars>>

NextRatio == B4b3Ratio

SpecRatio == InitRatio /\ [][NextRatio]_vars

(***************************************************************************)
(* calculate: the classification of the solver's rows (lines 529-564)      *)
(***************************************************************************)
\* A key a dict does not hold.
Absent == "Absent"

\* row.get('state', '')
row_state(row) == IF row.state = Absent THEN "" ELSE row.state
\* row.get('pH'): an optional number is <<>> (None) or <<x>>
row_pH(row) == row.pH

\* step_ml = float(d['NaOH_vol']) / 20
step_ml(vol) == vol \div 20

\* "elif state == 'react'": the rows that are counted
is_react_not_i_soln(state) == state # "i_soln"
is_react(state) == state = "react"

\* "if react_count <= 2: continue": the counted rows that are skipped
skipped_salts_only(count) == count <= 1
skipped(count) == count <= 2

\* naoh_vol = round(naoh_vol + step_ml, 8)
next_naoh_vol_unrounded(vol, step) == vol + step
next_naoh_vol(vol, step) == RoundTo(vol + step, VolQuantum)

\* The dict appended to titration.
titration_point(vol, pH, ratio) ==
    [state |-> "react", V_NaOH |-> vol,
     pH |-> IF pH # <<>> THEN <<RoundTo(pH[1], pHQuantum)>> ELSE <<>>,
     B4B3 |-> round_ratio(ratio)]

\* One pass of the body of "for row in rows" over the loop's locals.
classify_row(acc, row, step) ==
    LET state == row_state(row)
        pH    == row_pH(row)
        ratio == b4b3_ratio(row, "mol/kgw")
    IN  IF state = "i_soln" THEN acc
        ELSE IF is_react(state) THEN
            LET count == acc.react_count + 1
            IN  IF skipped(count) THEN [acc EXCEPT !.react_count = count]
                ELSE LET vol == next_naoh_vol(acc.naoh_vol, step)
                     IN  [react_count |-> count, naoh_vol |-> vol,
                          titration |-> Append(acc.titration, titration_point(vol, pH, ratio))]
        ELSE acc

(***************************************************************************)
(* Inputs of the classification                                            *)
(***************************************************************************)
\* A react row with boron species: B(OH)3 = 2, B(OH)4- = 1 mol/kgw.
BoronRow ==
    [k \in {"state", "pH", KeyL, KeyM} |->
        CASE k = "state" -> "react"
          [] k = "pH" -> <<8654321>>
          [] k = KeyL -> <<2>>
          [] k = KeyM -> <<1>>]

\* The rows a solver may return, by state, pH and boron species.
RowKinds ==
    {[state |-> "i_soln", pH |-> <<7000000>>],
     [state |-> "react",  pH |-> <<8123457>>],
     [state |-> "react",  pH |-> <<>>],
     [state |-> "transp", pH |-> <<7000000>>],
     [state |-> Absent,   pH |-> <<9000001>>],
     BoronRow}

\* Row streams of 1..MaxRows rows (run_phreeqc returns at least one row).
MaxRows == 4
RowStreams == UNION {[1..n -> RowKinds] : n \in 1..MaxRows}

\* The stream of one run of the generated script: 1 i_soln row, 2 react rows
\* (salts, acid), 20 react rows (base steps).
CanonicalRows ==
    [i \in 1..23 |-> IF i = 1 THEN [state |-> "i_soln", pH |-> <<7000000>>]
                     ELSE [state |-> "react", pH |-> <<8123457>>]]

\* Base volumes: 20 volume units times 0..MaxVol, and times -1..-MaxNegVol.
MaxVol == 11
MaxNegVol == 2
BaseVolumes == [k \in 0..(MaxVol + MaxNegVol) |->
                   IF k <= MaxVol THEN 20 * k ELSE 20 * (MaxVol - k)]

InitClassify ==
    /\ pc = "for_row"
    /\ \/ rows \in RowStreams /\ NaOH_vol \in {60, 100}
       \/ rows = CanonicalRows
          /\ \E k \in DOMAIN BaseVolumes : NaOH_vol = BaseVolumes[k]
    /\ idx = 1
    /\ react_count = 0
    /\ naoh_vol = 0
    /\ titration = <<>>
    /\ RecipeIdle
    /\ RequestIdle
    /\ RatioIdle
    /\ ConcIdle

\* One iteration of "for row in rows".
ClassifyRow ==
    /\ pc = "for_row"
    /\ idx <= Len(rows)
    /\ LET acc == classify_row([react_count |-> react_count, naoh_vol |-> naoh_vol,
                                titration |-> titration],
                               rows[idx], step_ml(NaOH_vol))
       IN  /\ react_count' = acc.react_count
           /\ naoh_vol' = acc.naoh_vol
           /\ titration' = acc.titration
    /\ idx' = idx + 1
    /\ pc' = IF idx = Len(rows) THEN "classified" ELSE "for_row"
    /\ UNCHANGED <<rows, NaOH_vol>>
    /\ UNCHANGED recipeVars
    /\ UNCHANGED requestVars
    /\ UNCHANGED <<ratioVars, concVars>>

NextClassify == ClassifyRow

SpecClassify == InitClassify /\ [][NextClassify]_vars

(***************************************************************************)
(* The request handlers: parse_payload, recipe_route, calculate            *)
(*                                                                         *)
(* Units of a payload's numbers: density 1/20 kg/L, tds 1 g/L (or g/kgs),  *)
(* water mass 1/20 kgw/L, atomic weights (Q3..Q8, B, Br) 1e-6 g/mol, ion   *)
(* concentrations 1/6e11 mg/L, so that mg_per_L / water_mass / MW is a     *)
(* molality in its unit above.  A division rounds to the nearest unit; the *)
(* payloads below keep the quotients exact.                                *)
(***************************************************************************)
\* water-mass units per kgw/L
WmScale == 20

Q3 == 22989769
Q4 == 39098300
Q5 == 6941000
Q6 == 24305000
Q7 == 40078000
Q8 == 32020000
\* the atomic weights calculate passes for B and Br
MW_B  == 10811000
MW_Br == 79904000

\* A value of the payload: a number (or a numeric string), or a string that
\* float() rejects.
Num(n) == [k |-> "num", n |-> n, s |-> ""]
Str(s) == [k |-> "str", n |-> 0, s |-> s]

\* the g/kgs branch whatever the unit
calc_water_mass_per_kgs(density, tds, tds_unit) ==
    FDiv(1000 * density - tds * density, 1000)
\* the g/L branch for 'g/l' too
calc_water_mass_any_case(density, tds, tds_unit) ==
    IF tds_unit \in {Str("g/L"), Str("g/l")}
    THEN FDiv(1000 * density - WmScale * tds, 1000)
    ELSE FDiv(1000 * density - tds * density, 1000)
calc_water_mass(density, tds, tds_unit) ==
    IF tds_unit = Str("g/L")
    THEN FDiv(1000 * density - WmScale * tds, 1000)
    ELSE FDiv(1000 * density - tds * density, 1000)

\* the division by water_mass raises ZeroDivisionError
to_mmol_kgw_raises_nonpositive(water_mass) == water_mass <= 0
to_mmol_kgw_raises(water_mass) == water_mass = 0
to_mmol_kgw(mg_per_L, MW, water_mass) == FDiv(FDiv(mg_per_L, water_mass), MW)

\* The exceptions of the handlers, by type and str(e).
NoExc == [type |-> "", arg |-> ""]
KeyError(f) == [type |-> "KeyError", arg |-> f]
ValueError(f) == [type |-> "ValueError", arg |-> "could not convert string to float"]
ZeroDivisionError == [type |-> "ZeroDivisionError", arg |-> "float division by zero"]
RuntimeError(msg) == [type |-> "RuntimeError", arg |-> msg]

\* The statements of a handler that can raise or that compute, in the order
\* of execution: float(d[f]), d[f], float(d.get(f, default)), and the
\* arithmetic named by op (on the ion f, where it has one).
Float(f)    == [op |-> "float", f |-> f]
Lookup(f)   == [op |-> "lookup", f |-> f]
FloatGet(f) == [op |-> "float_get", f |-> f]
Compute(op, f) == [op |-> op, f |-> f]

ParseIons == <<"Na", "K", "Li", "Mg", "Ca", "SO4">>
AtomicWeight ==
    [Na |-> Q3, K |-> Q4, Li |-> Q5, Mg |-> Q6, Ca |-> Q7, SO4 |-> Q8,
     B |-> MW_B, Br |-> MW_Br]

parse_payload_steps ==
    <<Float("density"), Float("tds"), Lookup("tds_unit"),
      Compute("calc_water_mass", ""),
      Float("Na"),  Compute("to_mmol_kgw", "Na"),
      Float("K"),   Compute("to_mmol_kgw", "K"),
      Float("Li"),  Compute("to_mmol_kgw", "Li"),
      Float("Mg"),  Compute("to_mmol_kgw", "Mg"),
      Float("Ca"),  Compute("to_mmol_kgw", "Ca"),
      Float("SO4"), Compute("to_mmol_kgw", "SO4")>>

\* recipe_route, were it to run the solver as calculate does
recipe_route_steps_with_solver ==
    parse_payload_steps \o
    <<Compute("run_phreeqc", ""), Compute("build_recipe", "")>>

recipe_route_steps ==
    parse_payload_steps \o <<Compute("build_recipe", "")>>

calculate_steps ==
    parse_payload_steps \o
    <<Float("B"),  Compute("to_mmol_kgw", "B"),
      Float("Br"), Compute("to_mmol_kgw", "Br"),
      Float("H3BO3_conc"), Float("H3BO3_vol"), Float("sample_vol"),
      Float("NaOH_conc"), Float("NaOH_vol"), FloatGet("pH"),
      Compute("build_phreeqc_input", ""),
      Compute("run_phreeqc", ""),
      Compute("build_recipe", ""),
      Float("NaOH_vol"), Compute("step_ml", ""),
      Compute("for_row", "")>>

\* float(dd[f]) once it is known not to raise
float(dd, f) == dd[f].n

\* wm = calc_water_mass(density, tds, tds_unit)
wm_of(dd) == calc_water_mass(float(dd, "density"), float(dd, "tds"), dd["tds_unit"])

\* build_phreeqc_input divides by kgw_sample, H3BO3_conc and NaOH_conc.
kgw_sample_is_zero(dd) == float(dd, "sample_vol") * wm_of(dd) = 0
build_phreeqc_input_raises(dd) ==
    \/ kgw_sample_is_zero(dd)
    \/ float(dd, "H3BO3_conc") = 0
    \/ float(dd, "NaOH_conc") = 0

\* The exception a statement raises on the payload dd, NoExc if none.
\* run_phreeqc raises RuntimeError as the environment env makes it.
step_raises(step, dd, env) ==
    CASE step.op = "float" ->
            IF step.f \notin DOMAIN dd THEN KeyError(step.f)
            ELSE IF dd[step.f].k = "str" THEN ValueError(step.f)
            ELSE NoExc
      [] step.op = "lookup" ->
            IF step.f \notin DOMAIN dd THEN KeyError(step.f) ELSE NoExc
      [] step.op = "float_get" ->
            IF step.f \in DOMAIN dd /\ dd[step.f].k = "str"
            THEN ValueError(step.f) ELSE NoExc
      [] step.op = "to_mmol_kgw" ->
            IF to_mmol_kgw_raises(wm_of(dd)) THEN ZeroDivisionError ELSE NoExc
      [] step.op = "build_phreeqc_input" ->
            IF build_phreeqc_input_raises(dd) THEN ZeroDivisionError ELSE NoExc
      [] step.op = "run_phreeqc" ->
            IF env.raises # "" THEN RuntimeError(env.raises) ELSE NoExc
      [] OTHER -> NoExc

\* The position of the first statement from i on that raises, Len + 1 if
\* the statements run to the end.
RECURSIVE first_raise(_, _, _, _)
first_raise(steps, i, dd, env) ==
    IF i > Len(steps) THEN i
    ELSE IF step_raises(steps[i], dd, env) # NoExc THEN i
    ELSE first_raise(steps, i + 1, dd, env)

is_arithmetic(step) == step.op \notin {"float", "lookup", "float_get", "run_phreeqc"}

\* The statements entered, the arithmetic completed among them, and the
\* exception that ended the run.
execute(steps, dd, env) ==
    LET i == first_raise(steps, 1, dd, env)
        entered == SubSeq(steps, 1, IF i > Len(steps) THEN Len(steps) ELSE i)
    IN  [exc   |-> IF i > Len(steps) THEN NoExc ELSE step_raises(steps[i], dd, env),
         arith |-> SelectSeq(SubSeq(steps, 1, i - 1), is_arithmetic),
         calls |-> Len(SelectSeq(entered, LAMBDA s : s.op = "run_phreeqc"))]

\* parse_payload's results
ion_of(dd) ==
    [f \in IonNames |-> to_mmol_kgw(float(dd, f), AtomicWeight[f], wm_of(dd))]
hyd_default ==
    [MgCl2 |-> "Hexahydrate", CaCl2 |-> "Anhydrous",
     MgSO4 |-> "Heptahydrate", Na2SO4 |-> "Anhydrous"]
hyd_key ==
    [MgCl2 |-> "hyd_MgCl2", CaCl2 |-> "hyd_CaCl2",
     MgSO4 |-> "hyd_MgSO4", Na2SO4 |-> "hyd_Na2SO4"]
hyd_of(dd) ==
    [k \in HydSalts |-> Get(dd, hyd_key[k], Str(hyd_default[k])).s]

\* calculate's ion_full
ion_full_of(dd) ==
    [f \in IonNames \cup {"B", "Br"} |->
        to_mmol_kgw(float(dd, f), AtomicWeight[f], wm_of(dd))]

\* round(wm, 6), in 1e-6 kgw/L
round_water_mass(wm) == RoundTo((1000000 \div WmScale) * wm, 1)
\* round(v, 5), in 1e-5/3 mmol/kgw
round_ion(v) == RoundTo(10 * v, MmolQuantum)

\* "for row in rows" from row i on
RECURSIVE for_rows(_, _, _, _)
for_rows(rs, i, acc, step) ==
    IF i > Len(rs) THEN acc
    ELSE for_rows(rs, i + 1, classify_row(acc, rs[i], step), step)

titration_of(rs, vol) ==
    for_rows(rs, 1, [react_count |-> 0, naoh_vol |-> 0, titration |-> <<>>],
             step_ml(vol)).titration

\* build_phreeqc_input's n_steps
n_steps == 20

(***************************************************************************)
(* build_phreeqc_input (lines 219-319)                                     *)
(*                                                                         *)
(* Units of the titration parameters: concentrations 0.1 mol/L, the acid   *)
(* and base volumes 2e-9 mL, the sample volume 1 mL.  A number the script  *)
(* prints is an integer count of its last printed decimal, except a        *)
(* REACTION 1 amount, which is a count of thirds of its ninth decimal.     *)
(***************************************************************************)
\* The salt molalities, computed again from the ion molalities (227-236).
pqi_A18_on_equal(ion) == IF ion.SO4 >= ion.Mg THEN 1 ELSE 0
pqi_A18(ion) == IF ion.SO4 > ion.Mg THEN 1 ELSE 0
pqi_A15(ion) == IF pqi_A18(ion) = 1 THEN 0 ELSE 1
pqi_C12(ion) == Max(0, ion.Mg - ion.SO4 * pqi_A15(ion))
pqi_C13(ion) == Max(0, ion.Ca)
pqi_C14(ion) == Max(0, ion.Li)
pqi_C15(ion) == Max(0, ion.SO4) * pqi_A15(ion)
pqi_C16(ion) == Max(0, ion.Na - 2 * ion.SO4 * pqi_A18(ion))
pqi_C17(ion) == Max(0, ion.K)
pqi_C18(ion) == Max(0, ion.SO4) * pqi_A18(ion)

RF == 200

\* val / RF in thirds of 1e-9 mmol/kgw: (1e-4/3) / 200 = 500 * (1e-9/3)
over_RF(val) == 500 * val
\* the ninth decimal place in that unit
AmountQuantum == 3
\* r(val) = f"{val / RF:.9f}"
pqi_r_unformatted(val) == over_RF(val)
pqi_r(val) == RoundTo(over_RF(val), AmountQuantum)

\* kgw_sample = sample_vol * water_mass / 1000, in 1/20000 kgw
kgw_sample(sample_vol, water_mass) == sample_vol * water_mass
\* M6 = H3BO3_conc * H3BO3_vol and M9 = NaOH_conc * NaOH_vol, in 2e-10 mmol
M6(params) == params.H3BO3_conc * params.H3BO3_vol
M9(params) == params.NaOH_conc * params.NaOH_vol
\* f"{M / kgw_sample:.8f}": 2e-10 mmol / (1/20000 kgw) = 400 * 1e-8 mmol/kgw
per_kgw_8f(M, kgw) == FDiv(400 * M, kgw)
\* 55.5556, in 1e-4 mol
WaterPerLitre == 555556
\* f"{55.5556 / H3BO3_conc:.3f}" and f"{55.5556 / NaOH_conc:.4f}"
H3BO3_H2O_3f(params) == FDiv(WaterPerLitre, params.H3BO3_conc)
NaOH_H2O_3f(params)  == FDiv(WaterPerLitre, params.NaOH_conc)
NaOH_H2O_4f(params)  == FDiv(10 * WaterPerLitre, params.NaOH_conc)

\* A line of the script: its text, with the format field where a number is
\* printed, and the numbers printed.
Line(text) == [text |-> text, nums |-> <<>>]
Fmt(text, nums) == [text |-> text, nums |-> nums]

\* SELECTED_OUTPUT, USER_PUNCH and SOLUTION 1 (lines 266-288)
pqi_head ==
    <<Line("SELECTED_OUTPUT 1"),
      Line("-molalities\tB(OH)3  B(OH)4- "),
      Line("\tB3O3(OH)4-  B4O5(OH)4-2  MgB(OH)4+  CaB(OH)4+"),
      Line("-ionic_strength       \ttrue"),
      Line("-pH\ttrue"),
      Line("-user_punch\ttrue"),
      Line("-water\ttrue"),
      Line("-alkalinity\ttrue"),
      Line("USER_PUNCH \t1"),
      Line("-headings \tVolume Density"),
      Line("-start"),
      Line("10\tPUNCH SOLN_VOL"),
      Line("20\tPUNCH RHO"),
      Line("30\tEND"),
      Line("SOLUTION\t1"),
      Line("\ttemp\t20"),
      Line("\tpH\t7"),
      Line("\tpe\t4"),
      Line("\tredox\tpe"),
      Line("\tunits\tmol/l"),
      Line("\tC(4)\t1\tCO2(g)\t-3.370590401"),
      Line("\t-water\t1\t#\tkg"),
      Line("")>>

\* "SAVE Solution 1 / END / USE Solution 1"
block_boundary_without_END ==
    <<Line("SAVE\tSolution\t1"), Line("USE\tSolution\t1")>>
block_boundary ==
    <<Line("SAVE\tSolution\t1"), Line("END"), Line("USE\tSolution\t1")>>

\* REACTION 1: the salts (lines 289-298)
pqi_salts(ion) ==
    <<Line("REACTION\t1"),
      Fmt("\tMgCl2\t{:.9f}",  <<pqi_r(pqi_C12(ion))>>),
      Fmt("\tCaCl2\t{:.9f}",  <<pqi_r(pqi_C13(ion))>>),
      Fmt("\tLiCl\t{:.9f}",   <<pqi_r(pqi_C14(ion))>>),
      Fmt("\tMgSO4\t{:.9f}",  <<pqi_r(pqi_C15(ion))>>),
      Fmt("\tNaCl\t{:.9f}",   <<pqi_r(pqi_C16(ion))>>),
      Fmt("\tKCl\t{:.9f}",    <<pqi_r(pqi_C17(ion))>>),
      Fmt("\tNa2SO4\t{:.9f}", <<pqi_r(pqi_C18(ion))>>),
      Line(""),
      Fmt("\t{}\tmillimoles\tin \t1\tsteps", <<RF>>)>>

\* the acid block, were it to print params['pH']
pqi_acid_at_pH(params, kgw) ==
    <<Line("REACTION\t2"),
      Line("\tH3BO3\t1"),
      Fmt("\tH2O\t{:.3f}", <<H3BO3_H2O_3f(params)>>),
      Fmt("\t{:.8f}\tmillimoles\tin \t1\tsteps", <<per_kgw_8f(M6(params), kgw)>>),
      Fmt("\tpH\t{}", <<params.pH>>)>>

\* REACTION 2: the acid (lines 303-307)
pqi_acid(params, kgw) ==
    <<Line("REACTION\t2"),
      Line("\tH3BO3\t1"),
      Fmt("\tH2O\t{:.3f}", <<H3BO3_H2O_3f(params)>>),
      Fmt("\t{:.8f}\tmillimoles\tin \t1\tsteps", <<per_kgw_8f(M6(params), kgw)>>),
      Line("")>>

\* REACTION 2: the base (lines 312-316)
pqi_base(params, kgw) ==
    <<Line("REACTION\t2"),
      Line("\tNaOH\t1"),
      Fmt("\tH2O\t{:.4f}", <<NaOH_H2O_4f(params)>>),
      Fmt("\t{:.8f}\tmillimoles\tin \t{}\tsteps", <<per_kgw_8f(M9(params), kgw), n_steps>>),
      Line("")>>

\* The script and the step count build_phreeqc_input returns.
build_phreeqc_input(ion, params, water_mass) ==
    LET kgw == kgw_sample(params.sample_vol, water_mass)
    IN  [pqi |-> pqi_head
                 \o pqi_salts(ion)
                 \o block_boundary \o <<Line("")>>
                 \o pqi_acid(params, kgw)
                 \o block_boundary \o <<Line("")>>
                 \o pqi_base(params, kgw),
         n_steps |-> n_steps]

\* calculate's params (the script does not read 'pH')
params_of(dd) ==
    [H3BO3_conc |-> float(dd, "H3BO3_conc"), H3BO3_vol |-> float(dd, "H3BO3_vol"),
     sample_vol |-> float(dd, "sample_vol"), NaOH_conc |-> float(dd, "NaOH_conc"),
     NaOH_vol |-> float(dd, "NaOH_vol"),
     pH |-> IF "pH" \in DOMAIN dd THEN float(dd, "pH") ELSE 8500000]

\* The dicts the handlers hand to jsonify.
recipe_route_body(dd) ==
    [recipe |-> build_recipe(ion_of(dd), hyd_of(dd)),
     water_mass |-> round_water_mass(wm_of(dd))]

calculate_body(dd, rs) ==
    [titration |-> titration_of(rs, float(dd, "NaOH_vol")),
     recipe |-> build_recipe(ion_of(dd), hyd_of(dd)),
     water_mass |-> round_water_mass(wm_of(dd)),
     ion_mmol_kgw |-> [f \in IonNames \cup {"B", "Br"} |-> round_ion(ion_full_of(dd)[f])],
     n_steps |-> n_steps]

recipe_route_error(e) == [error |-> e.arg]

\* the except clauses of calculate; trace stands for traceback.format_exc()
calculate_error_partial(e) ==
    [error |-> e.arg, water_mass |-> 0]
calculate_error(e) ==
    IF e.type = "RuntimeError" THEN [error |-> e.arg]
    ELSE [error |-> e.arg, trace |-> e.type]

(***************************************************************************)
(* Inputs of the requests                                                  *)
(***************************************************************************)
\* Densities 1.0 and 1.3 kg/L; TDS 500 * (1..MaxTds), in either unit.
Densities == {20, 26}
MaxTds == 3
\* The defaults of show_input: density 1.3 kg/L, TDS 350 g/L.
ScenarioWater == [density |-> 26, tds |-> 350, tds_unit |-> "g/L"]
WaterInputs ==
    [density : Densities, tds : {500 * k : k \in 1..MaxTds}, tds_unit : {"g/L", "g/kgs"}]
    \cup {ScenarioWater}

water_of(w) == calc_water_mass(w.density, w.tds, Str(w.tds_unit))

\* The molality, in molality units, an ion's concentration stands for when
\* the water mass is positive; its negation when the water mass is negative.
IonLevels ==
    <<[Na |-> 2, K |-> 1, Li |-> 1, Mg |-> 1, Ca |-> 1, SO4 |-> 0, B |-> 1, Br |-> 1],
      [Na |-> 1, K |-> 1, Li |-> 1, Mg |-> 0, Ca |-> 1, SO4 |-> 1, B |-> 1, Br |-> 1],
      [Na |-> 3, K |-> 1, Li |-> 1, Mg |-> 1, Ca |-> 1, SO4 |-> 1, B |-> 1, Br |-> 1]>>

\* mg/L of an ion: the level times the atomic weight, scaled by the size of
\* the water mass so that the divisions of to_mmol_kgw are exact.
mg_per_L(w, level, f) ==
    level[f] * AtomicWeight[f] * (IF water_of(w) = 0 THEN WmScale ELSE Abs(water_of(w)))

ParamInputs ==
    <<[H3BO3_conc |-> 1, H3BO3_vol |-> 4, sample_vol |-> 50, NaOH_conc |-> 1, NaOH_vol |-> 100],
      [H3BO3_conc |-> 1, H3BO3_vol |-> 4, sample_vol |-> 0,  NaOH_conc |-> 1, NaOH_vol |-> 100],
      [H3BO3_conc |-> 1, H3BO3_vol |-> 4, sample_vol |-> 50, NaOH_conc |-> 0, NaOH_vol |-> 100],
      [H3BO3_conc |-> 4, H3BO3_vol |-> 8, sample_vol |-> 20, NaOH_conc |-> 2, NaOH_vol |-> 60],
      [H3BO3_conc |-> 3, H3BO3_vol |-> 40, sample_vol |-> 50, NaOH_conc |-> 3, NaOH_vol |-> 40]>>

\* The composition varies under the first parameters, the parameters under
\* the first composition.
Samples ==
    {<<IonLevels[i], ParamInputs[1]>> : i \in DOMAIN IonLevels}
    \cup {<<IonLevels[1], ParamInputs[j]>> : j \in DOMAIN ParamInputs}

ParamNames == {"H3BO3_conc", "H3BO3_vol", "sample_vol", "NaOH_conc", "NaOH_vol"}
TraceIons == {"B", "Br"}
HydKeys == {"hyd_MgCl2", "hyd_CaCl2", "hyd_MgSO4", "hyd_Na2SO4"}
ParseFields == {"density", "tds", "tds_unit"} \cup IonNames
AllKeys == ParseFields \cup TraceIons \cup ParamNames \cup {"pH"} \cup HydKeys

\* The payload the page posts: every key, the dropdowns on their hydrates.
full_payload(w, level, p) ==
    [f \in AllKeys |->
        CASE f = "density" -> Num(w.density)
          [] f = "tds" -> Num(w.tds)
          [] f = "tds_unit" -> Str(w.tds_unit)
          [] f \in IonNames \cup TraceIons -> Num(mg_per_L(w, level, f))
          [] f \in ParamNames -> Num(p[f])
          [] f = "pH" -> Num(8500000)
          [] f = "hyd_MgCl2" -> Str("Hexahydrate")
          [] f = "hyd_CaCl2" -> Str("Dihydrate")
          [] f = "hyd_MgSO4" -> Str("Heptahydrate")
          [] f = "hyd_Na2SO4" -> Str("Decahydrate")]

\* dd without the keys in S
without(dd, S) == [f \in DOMAIN dd \ S |-> dd[f]]
\* dd with a string float() rejects under the keys in S
garbled(dd, S) == [f \in DOMAIN dd |-> IF f \in S THEN Str("abc") ELSE dd[f]]

\* Payloads lack up to MaxMissing keys, or carry a non-numeric string.
MaxMissing == 1
Garbled == {{"tds"}, {"Br"}, {"pH"}}
Payloads ==
    {without(full_payload(w, sm[1], sm[2]), S) :
        w \in WaterInputs, sm \in Samples,
        S \in {T \in SUBSET AllKeys : Cardinality(T) <= MaxMissing}}
    \cup {garbled(full_payload(w, sm[1], sm[2]), G) :
        w \in WaterInputs, sm \in Samples, G \in Garbled}

\* What the PHREEQC environment does to a call of run_phreeqc: one of its
\* RuntimeErrors, or the rows of the selected output.
SolverOutcomes ==
    {[raises |-> m, rows |-> <<>>] :
        m \in {"phreeqpython import failed", "Failed to initialise PhreeqPython",
               "PHREEQC simulation error", "PHREEQC returned no output rows"}}
    \cup {[raises |-> "", rows |-> rs] :
        rs \in {CanonicalRows, <<[state |-> "i_soln", pH |-> <<7000000>>]>>}}

Init ==
    /\ pc = "request"
    /\ handler \in {"recipe_route", "calculate"}
    /\ d \in Payloads
    /\ solver = None
    /\ exc = NoExc
    /\ arith = <<>>
    /\ phreeqc_calls = 0
    /\ pqi = None
    /\ status = 0
    /\ response = None
    /\ RecipeIdle
    /\ LoopIdle
    /\ RatioIdle
    /\ ConcIdle

\* POST /recipe
RecipeRoute ==
    /\ pc = "request"
    /\ handler = "recipe_route"
    /\ \E env \in SolverOutcomes :
         LET run == execute(recipe_route_steps, d, env)
         IN  /\ exc' = run.exc
             /\ arith' = run.arith
             /\ phreeqc_calls' = run.calls
             /\ solver' = env
             /\ IF run.exc = NoExc
                THEN status' = 200 /\ response' = recipe_route_body(d)
                ELSE status' = 500 /\ response' = recipe_route_error(run.exc)
    /\ pc' = "done"
    /\ UNCHANGED <<handler, d, pqi>>
    /\ UNCHANGED <<recipeVars, loopVars>>
    /\ UNCHANGED <<ratioVars, concVars>>

\* POST /calculate
Calculate ==
    /\ pc = "request"
    /\ handler = "calculate"
    /\ \E env \in SolverOutcomes :
         LET run == execute(calculate_steps, d, env)
         IN  /\ exc' = run.exc
             /\ arith' = run.arith
             /\ phreeqc_calls' = run.calls
             /\ solver' = IF run.calls > 0 THEN env ELSE None
             /\ pqi' = IF Compute("build_phreeqc_input", "") \in Range(run.arith)
                       THEN build_phreeqc_input(ion_of(d), params_of(d), wm_of(d)).pqi
                       ELSE None
             /\ IF run.exc = NoExc
                THEN status' = 200 /\ response' = calculate_body(d, env.rows)
                ELSE status' = 500 /\ response' = calculate_error(run.exc)
    /\ pc' = "done"
    /\ UNCHANGED <<handler, d>>
    /\ UNCHANGED <<recipeVars, loopVars>>
    /\ UNCHANGED <<ratioVars, concVars>>

Next == RecipeRoute \/ Calculate

Spec == Init /\ [][Next]_vars

(***************************************************************************)
(* Concurrent calculations: two /calculate requests, statement by          *)
(* statement (lines 505-572), each in its own frame of locals              *)
(***************************************************************************)
Calcs == {"A", "B"}

\* The module-level objects the handlers read (lines 33-58).
ModuleObjects == [AtomicWeight |-> AtomicWeight]

\* The frame that holds a calculation's locals: its own.
first_frame(c) == "A"
frame(c) == c

\* Complete payloads: two that differ in a dropdown, pH and B only, and two
\* that differ in tds_unit only and have one water mass.
ConcPayloads ==
    LET P1 == full_payload(ScenarioWater, IonLevels[1], ParamInputs[1])
        W3 == [density |-> 20, tds |-> 500, tds_unit |-> "g/kgs"]
        P3 == full_payload(W3, IonLevels[2], ParamInputs[4])
    IN  {P1,
         [P1 EXCEPT !["hyd_MgCl2"] = Str("Anhydrous"), !["pH"] = Num(9000000),
                    !["B"] = Num(2 * P1["B"].n)],
         P3,
         [P3 EXCEPT !["tds_unit"] = Str("g/L")]}

ShortRows ==
    <<[state |-> "i_soln", pH |-> <<7000000>>],
      [state |-> "react",  pH |-> <<6000000>>],
      [state |-> "react",  pH |-> <<5000000>>],
      BoronRow,
      [state |-> "react",  pH |-> <<>>]>>
ConcRows == {CanonicalRows, ShortRows}

\* The frame of a calculation that has read its payload.  A local not yet
\* bound holds None; the loop's accumulators and position hold from the
\* start the values lines 540-544 bind them to.
NewFrame(payload) ==
    [pc |-> "parse_payload", d |-> payload,
     wm |-> None, ion |-> None, hyd |-> None, ion_full |-> None, params |-> None,
     pqi |-> None, n_steps |-> None, rows |-> None, recipe |-> None,
     step_ml |-> None, idx |-> 1, react_count |-> 0, naoh_vol |-> 0,
     titration |-> <<>>, response |-> None]

InitConcurrent ==
    /\ pc = "serving"
    /\ calcs \in [Calcs -> {NewFrame(p) : p \in ConcPayloads}]
    /\ module = ModuleObjects
    /\ RecipeIdle
    /\ LoopIdle
    /\ RequestIdle
    /\ RatioIdle

\* Calculation c is at the statement at, and its frame becomes f.
At(c, at) == calcs[c].pc = at
Becomes(c, f) ==
    /\ calcs' = [calcs EXCEPT ![c] = f]
    /\ UNCHANGED <<pc, module>>
    /\ UNCHANGED <<recipeVars, loopVars, requestVars, ratioVars>>

\* wm, ion, hyd = parse_payload(d)
ParsePayload(c) ==
    /\ At(c, "parse_payload")
    /\ LET f  == calcs[c]
           wm == calc_water_mass(float(f.d, "density"), float(f.d, "tds"), f.d["tds_unit"])
       IN  Becomes(c, [f EXCEPT
               !.wm  = wm,
               !.ion = [k \in IonNames |->
                           to_mmol_kgw(float(f.d, k), module.AtomicWeight[k], wm)],
               !.hyd = hyd_of(f.d),
               !.pc  = "ion_full"])

\* ion_full = dict(ion); ion_full['B'] = ...; ion_full['Br'] = ...
IonFull(c) ==
    /\ At(c, "ion_full")
    /\ LET f == calcs[c]
       IN  Becomes(c, [f EXCEPT
               !.ion_full = [k \in IonNames \cup TraceIons |->
                   IF k \in IonNames THEN f.ion[k]
                   ELSE to_mmol_kgw(float(f.d, k), module.AtomicWeight[k], f.wm)],
               !.pc = "params"])

\* params = {...}
Params(c) ==
    /\ At(c, "params")
    /\ Becomes(c, [calcs[c] EXCEPT !.params = params_of(calcs[c].d),
                                   !.pc = "build_phreeqc_input"])

\* pqi, n_steps = build_phreeqc_input(ion, params, wm)
BuildPhreeqcInput(c) ==
    /\ At(c, "build_phreeqc_input")
    /\ LET f   == calcs[c]
           out == build_phreeqc_input(f.ion, f.params, f.wm)
       IN  Becomes(c, [f EXCEPT !.pqi = out.pqi, !.n_steps = out.n_steps,
                                !.pc = "run_phreeqc"])

\* rows = run_phreeqc(pqi): the solver answers with some rows
RunPhreeqc(c) ==
    /\ At(c, "run_phreeqc")
    /\ \E rs \in ConcRows :
         Becomes(c, [calcs[c] EXCEPT !.rows = rs, !.pc = "build_recipe"])

\* recipe = build_recipe(ion, hyd)
BuildRecipeStatement(c) ==
    /\ At(c, "build_recipe")
    /\ Becomes(c, [calcs[c] EXCEPT !.recipe = build_recipe(calcs[c].ion, calcs[c].hyd),
                                   !.pc = "step_ml"])

\* step_ml = ...; react_count = 0; titration = []; naoh_vol = 0.0
StepMl(c) ==
    /\ At(c, "step_ml")
    /\ Becomes(c, [calcs[c] EXCEPT
           !.step_ml = step_ml(float(calcs[c].d, "NaOH_vol")),
           !.react_count = 0, !.titration = <<>>, !.naoh_vol = 0, !.idx = 1,
           !.pc = "for_row"])

\* One iteration of "for row in rows": the accumulators are read and written
\* in the calculation's frame.
ForRow(c) ==
    /\ At(c, "for_row")
    /\ calcs[c].idx <= Len(calcs[c].rows)
    /\ LET f   == calcs[c]
           g   == calcs[frame(c)]
           acc == classify_row([react_count |-> g.react_count, naoh_vol |-> g.naoh_vol,
                                titration |-> g.titration],
                               f.rows[f.idx], f.step_ml)
       IN  /\ calcs' = [calcs EXCEPT
                  ![frame(c)].react_count = acc.react_count,
                  ![frame(c)].naoh_vol = acc.naoh_vol,
                  ![frame(c)].titration = acc.titration,
                  ![c].idx = f.idx + 1]
           /\ UNCHANGED <<pc, module>>
           /\ UNCHANGED <<recipeVars, loopVars, requestVars, ratioVars>>

\* return jsonify({...})
Jsonify(c) ==
    /\ At(c, "for_row")
    /\ calcs[c].idx > Len(calcs[c].rows)
    /\ LET f == calcs[c]
       IN  Becomes(c, [f EXCEPT
               !.response = [titration |-> f.titration,
                             recipe |-> f.recipe,
                             water_mass |-> round_water_mass(f.wm),
                             ion_mmol_kgw |-> [k \in DOMAIN f.ion_full |->
                                                  round_ion(f.ion_full[k])],
                             n_steps |-> f.n_steps],
               !.pc = "done"])

NextConcurrent ==
    \E c \in Calcs :
        \/ ParsePayload(c)
        \/ IonFull(c)
        \/ Params(c)
        \/ BuildPhreeqcInput(c)
        \/ RunPhreeqc(c)
        \/ BuildRecipeStatement(c)
        \/ StepMl(c)
        \/ ForRow(c)
        \/ Jsonify(c)

SpecConcurrent == InitConcurrent /\ [][NextConcurrent]_vars

(***************************************************************************)
(* Claims about the classification                                         *)
(***************************************************************************)
\* The rows the loop has passed, and the react rows among them.
Processed == SubSeq(rows, 1, idx - 1)
ReactRows(rs) == SelectSeq(rs, LAMBDA r : r.state = "react")

\* V_NaOH of the i-th point, 0 before the first.
V(i) == IF i = 0 THEN 0 ELSE titration[i].V_NaOH

CanonicalDone == pc = "classified" /\ rows = CanonicalRows

\* C2 as claimed -- for the stream of 1 i_soln row, 2 react rows and 20
\* react rows and any base volume: exactly 20 points, V_NaOH strictly
\* increasing, each increment NaOH_vol / 20, the last point at NaOH_vol.
C2_AnyBaseVolume ==
    CanonicalDone =>
        /\ Len(titration) = 20
        /\ \A i \in 1..Len(titration) :
              /\ V(i) > V(i - 1)
              /\ 20 * (V(i) - V(i - 1)) = NaOH_vol
        /\ V(Len(titration)) = NaOH_vol

\* C2 as amended -- for that stream and any base volume: exactly 20 points;
\* each increment of V_NaOH is NaOH_vol / 20 rounded to 8 decimals; V_NaOH
\* is strictly increasing when NaOH_vol / 20 >= 1e-8 mL; each increment is
\* NaOH_vol / 20, the last point at NaOH_vol, when NaOH_vol / 20 is a
\* positive multiple of 1e-8 mL; with NaOH_vol = 0 every point is at 0.
C2_TitrationClassification ==
    CanonicalDone =>
        /\ Len(titration) = 20
        /\ \A i \in 1..Len(titration) :
              LET inc == V(i) - V(i - 1)
              IN  /\ inc % VolQuantum = 0
                  /\ 2 * Abs(20 * inc - NaOH_vol) < 20 * VolQuantum
                  /\ NaOH_vol >= 20 * VolQuantum => inc > 0
                  /\ NaOH_vol > 0 /\ NaOH_vol % (20 * VolQuantum) = 0
                        => 20 * inc = NaOH_vol
                  /\ NaOH_vol = 0 => V(i) = 0
        /\ NaOH_vol > 0 /\ NaOH_vol % (20 * VolQuantum) = 0
              => V(Len(titration)) = NaOH_vol

\* C2 witness: a base volume of 20 x 2e-8 mL, classified into 20 points
\* that end at the base volume.
C2_Witness ==
    /\ CanonicalDone
    /\ NaOH_vol = 20 * 2 * VolQuantum
    /\ Len(titration) = 20
    /\ V(1) = 2 * VolQuantum
    /\ V(20) = NaOH_vol

\* The points the rule yields for the rows rs: one per react row after the
\* second, in stream order.
ExpectedPoints(rs, vol) ==
    LET R   == ReactRows(rs)
        n   == IF Len(R) > 2 THEN Len(R) - 2 ELSE 0
        inc == RoundTo(vol \div 20, VolQuantum)
    IN  [k \in 1..n |->
            [state |-> "react", V_NaOH |-> k * inc,
             pH |-> IF R[k + 2].pH = <<>> THEN <<>>
                    ELSE <<RoundTo(R[k + 2].pH[1], pHQuantum)>>,
             B4B3 |-> round_ratio(b4b3_ratio(R[k + 2], "mol/kgw"))]]

\* C3 -- Row classification rule, for every row stream and at every point
\* of the loop: i_soln rows are discarded, the first two react rows are
\* discarded, every later react row yields exactly one point, appended in
\* stream order; rows of any other state yield nothing and do not advance
\* the react counter.  The number of points is max(0, react rows - 2).
C3_RowClassification ==
    pc \in {"for_row", "classified"} =>
        /\ react_count = Len(ReactRows(Processed))
        /\ Len(titration) = Max(0, react_count - 2)
        /\ titration = ExpectedPoints(Processed, NaOH_vol)

\* C3 witness: react rows interleaved with a row of another state, the
\* third react row, which ends the stream, the only one to yield a point.
C3_Witness ==
    /\ pc = "classified"
    /\ \E i \in 1..(Len(rows) - 1) : rows[i].state \notin {"i_soln", "react"}
    /\ rows[Len(rows)].state = "react"
    /\ Len(titration) = 1

(***************************************************************************)
(* Claims about build_recipe                                               *)
(***************************************************************************)
Returned == pc = "returned"

NonNegative(ion) == \A k \in IonNames : ion[k] >= 0

\* C1 -- Salt-path exclusivity: when SO4 > 0 exactly one of the MgSO4 and
\* Na2SO4 molalities build_recipe computes is strictly positive and equals
\* SO4 while the other is exactly 0; when SO4 = 0 both are 0.  The sulfate
\* is never split, in the computed molalities or in the rounded ones of the
\* returned dict.
C1_SaltPathExclusivity ==
    Returned =>
        LET m == locals.mmol
            s == ion_mmol_kgw.SO4
        IN  /\ s > 0 => \/ m.MgSO4 = s /\ m.Na2SO4 = 0
                        \/ m.Na2SO4 = s /\ m.MgSO4 = 0
            /\ s = 0 => m.MgSO4 = 0 /\ m.Na2SO4 = 0
            /\ recipe.MgSO4.mmol = 0 \/ recipe.Na2SO4.mmol = 0

\* C1 witness: a sulfate excess routed whole to Na2SO4.
C1_Witness ==
    /\ Returned
    /\ ion_mmol_kgw.SO4 > ion_mmol_kgw.Mg
    /\ ion_mmol_kgw.Mg > 0
    /\ locals.mmol.Na2SO4 = ion_mmol_kgw.SO4
    /\ locals.mmol.MgSO4 = 0

\* max(0, x) applied to every ion molality.
ClampIon(ion) == [k \in IonNames |-> Max(0, ion[k])]

\* C8 -- Clamp-not-fail: the recipe obtained with negative ion molalities is
\* the recipe obtained with each of them replaced by 0 (so that with all six
\* molalities <= 0 every salt molality is 0).
C8_NegativeIsZero ==
    Returned => recipe = build_recipe(ClampIon(ion_mmol_kgw), hydration)

\* C9 -- Charge balance: for non-negative ion molalities the NaCl molality
\* is >= 0; on the Na2SO4 path it is Na - 2*SO4 when that is non-negative
\* and 0 when it is negative, on the MgSO4 path it is Na.  For every input
\* no salt molality and no salt mass, computed or returned, is negative.
C9_ChargeBalance ==
    Returned =>
        LET ion == ion_mmol_kgw
            raw == ion.Na - 2 * ion.SO4
        IN  /\ NonNegative(ion) =>
                /\ locals.mmol.NaCl >= 0
                /\ ion.SO4 > ion.Mg /\ raw >= 0 => locals.mmol.NaCl = raw
                /\ ion.SO4 > ion.Mg /\ raw < 0 => locals.mmol.NaCl = 0
                /\ ion.SO4 <= ion.Mg => locals.mmol.NaCl = ion.Na
            /\ \A k \in SaltNames :
                /\ locals.mmol[k] >= 0 /\ locals.g[k] >= 0
                /\ recipe[k].mmol >= 0 /\ recipe[k].g >= 0

\* C9 witness: the Na2SO4 path with less sodium than 2*SO4, NaCl clamped.
C9_Witness ==
    /\ Returned
    /\ NonNegative(ion_mmol_kgw)
    /\ ion_mmol_kgw.SO4 > ion_mmol_kgw.Mg
    /\ ion_mmol_kgw.Na > 0
    /\ ion_mmol_kgw.Na < 2 * ion_mmol_kgw.SO4
    /\ locals.mmol.NaCl = 0

\* Waters of crystallisation of the hydrated form, and the anhydrous molar mass.
HydrationNumber == [MgCl2 |-> 6, CaCl2 |-> 2, MgSO4 |-> 7, Na2SO4 |-> 10]
AnhydrousMw == [MgCl2 |-> J3, CaCl2 |-> J6, MgSO4 |-> J9, Na2SO4 |-> J12]

\* C10 -- Hydration molar-mass rule: the molar mass used for a hydrated salt
\* is the anhydrous molar mass plus hydration-number x 18.01528 within
\* 0.001, the anhydrous constant when the form is 'Anhydrous'; LiCl, NaCl
\* and KCl use 42.394, 58.44 and 74.55.
C10_HydrationMolarMass ==
    Returned =>
        /\ \A k \in HydSalts :
              IF Get(hydration, k, "Anhydrous") = "Anhydrous"
              THEN locals.mw[k] = AnhydrousMw[k]
              ELSE Abs(locals.mw[k] - (AnhydrousMw[k] + HydrationNumber[k] * Q10))
                       <= 100
        /\ locals.mw.LiCl = 4239400
        /\ locals.mw.NaCl = 5844000
        /\ locals.mw.KCl = 7455000

(***************************************************************************)
(* Claims about the request handlers                                       *)
(***************************************************************************)
Done == pc = "done"

\* The fields the claim C4 lists as required.
RequiredFields == ParseFields \cup ParamNames
\* The fields float() is applied to without a default.
FloatFields(fields) == fields \ {"tds_unit"}

\* The payload holds the fields, numbers where float() is applied.
WellFormed(dd, fields) ==
    /\ fields \subseteq DOMAIN dd
    /\ \A f \in FloatFields(fields) : dd[f].k = "num"

\* C4 -- Input validation ordering: a /calculate request whose payload
\* lacks a required field (density, tds, tds_unit, the six ions, the five
\* titration parameters) fails with a missing-field error naming a field it
\* lacks, and no arithmetic step has executed before that.
C4_MissingFieldBeforeArithmetic ==
    (Done /\ handler = "calculate" /\ ~(RequiredFields \subseteq DOMAIN d))
        => /\ status = 500
           /\ exc.type = "KeyError"
           /\ exc.arg \in RequiredFields \ DOMAIN d
           /\ arith = <<>>

\* The solver's inputs can be computed: no division by zero on the way.
Computable(dd) ==
    /\ ~to_mmol_kgw_raises(wm_of(dd))
    /\ ~build_phreeqc_input_raises(dd)

\* C5 -- B and Br are optional: a /calculate request that supplies every
\* required field (with values the script can be computed from) but omits
\* B and/or Br is not rejected as an input error, and proceeds to script
\* generation and the solver call.
C5_TraceIonsOptional ==
    (/\ Done /\ handler = "calculate"
     /\ WellFormed(d, RequiredFields)
     /\ ("pH" \in DOMAIN d => d["pH"].k = "num")
     /\ Computable(d)
     /\ ~(TraceIons \subseteq DOMAIN d))
        => /\ exc.type \notin {"KeyError", "ValueError"}
           /\ Compute("build_phreeqc_input", "") \in {arith[i] : i \in DOMAIN arith}
           /\ phreeqc_calls = 1

\* The input of a /calculate request cannot be parsed: a field it reads is
\* missing or not a number, or the water mass it divides by is zero.
CalculateFields == RequiredFields \cup TraceIons
InputFails(dd) ==
    \/ ~WellFormed(dd, CalculateFields)
    \/ ("pH" \in DOMAIN dd /\ dd["pH"].k = "str")
    \/ to_mmol_kgw_raises(wm_of(dd))

\* run_phreeqc was called and raised.
SolverRaised == phreeqc_calls > 0 /\ solver.raises # ""

ResultKeys == {"recipe", "water_mass", "ion_mmol_kgw", "titration", "n_steps"}

\* C6 -- Errors are terminal for a /calculate request: if the input cannot
\* be parsed or run_phreeqc raises, the response is an error response that
\* carries the error and none of recipe, water_mass, ion table, titration;
\* and run_phreeqc is called at most once per request.
C6_ErrorsTerminal ==
    (Done /\ handler = "calculate")
        => /\ phreeqc_calls <= 1
           /\ (InputFails(d) => phreeqc_calls = 0)
           /\ (InputFails(d) \/ SolverRaised)
                => /\ status = 500
                   /\ "error" \in DOMAIN response
                   /\ DOMAIN response \cap ResultKeys = {}

C6_Witness ==
    /\ Done /\ handler = "calculate"
    /\ phreeqc_calls = 1
    /\ solver.raises = "PHREEQC simulation error"
    /\ status = 500
    /\ response = [error |-> "PHREEQC simulation error"]

\* A /recipe request whose payload parse_payload can read.
RecipeRequest == handler = "recipe_route" /\ WellFormed(d, ParseFields)

RecipeNonNegative(r) == \A s \in SaltNames : r[s].mmol >= 0 /\ r[s].g >= 0

\* C7 as stated -- for every /recipe request whose density and TDS give a
\* water mass <= 0, zero included, the recipe is computed with clamped
\* values and the response is not an error.
C7_DegenerateWaterMassAbsorbed ==
    (Done /\ RecipeRequest /\ wm_of(d) <= 0)
        => /\ status = 200
           /\ "recipe" \in DOMAIN response

\* C7 -- for every /recipe request whose density and TDS give a water mass
\* < 0 the recipe is computed, every salt's molality and mass clamped at 0
\* or above, and the response is not an error; when the water mass is
\* exactly 0 the request ends in the error response of a division by zero.
C7_NegativeWaterMassAbsorbed ==
    (Done /\ RecipeRequest)
        => /\ wm_of(d) < 0
                => /\ status = 200 /\ exc = NoExc
                   /\ DOMAIN response = {"recipe", "water_mass"}
                   /\ RecipeNonNegative(response.recipe)
                   /\ response.water_mass < 0
           /\ wm_of(d) = 0
                => /\ status = 500 /\ exc = ZeroDivisionError
                   /\ response = [error |-> "float division by zero"]

C7_Witness ==
    /\ Done /\ RecipeRequest
    /\ wm_of(d) < 0
    /\ ion_of(d).Na < 0 /\ ion_of(d).Mg < 0
    /\ status = 200
    /\ response.recipe.NaCl.mmol = 0
    /\ response.recipe.MgCl2.mmol = 0

(***************************************************************************)
(* Claims about the end-to-end scenario                                    *)
(***************************************************************************)
\* A request that parse_payload can read and that carries the scenario's
\* density 1.3, tds 350 and tds_unit 'g/L', answered without an error.
ScenarioAnswered ==
    /\ Done /\ WellFormed(d, ParseFields)
    /\ d["density"] = Num(ScenarioWater.density)
    /\ d["tds"] = Num(ScenarioWater.tds)
    /\ d["tds_unit"] = Str(ScenarioWater.tds_unit)
    /\ status = 200

\* C11 as stated -- for density 1.3, tds 350 and tds_unit 'g/L' the water
\* mass is approximately 1.2500 kgw/L (to the fourth decimal; the
\* response's water_mass is in 1e-6 kgw/L).
C11_ScenarioWaterMassOneAndAQuarter ==
    ScenarioAnswered => Abs(response.water_mass - 1250000) <= 50

\* C11 -- for density 1.3, tds 350 and tds_unit 'g/L' calc_water_mass
\* returns (1000 * 1.3 - 350) / 1000 = 0.95 kgw/L, and the response's
\* water_mass is 0.95.
C11_ScenarioWaterMass ==
    ScenarioAnswered
        => /\ wm_of(d) * 100 = 95 * WmScale
           /\ response.water_mass = 950000

C11_Witness ==
    /\ ScenarioAnswered
    /\ handler = "calculate"
    /\ response.water_mass = 950000
    /\ response.n_steps = 20

(***************************************************************************)
(* Claims about the script                                                 *)
(***************************************************************************)
\* calculate has called build_phreeqc_input and it has returned.
ScriptBuilt ==
    Done /\ handler = "calculate" /\ Compute("build_phreeqc_input", "") \in Range(arith)

ReactionHeaders == {"REACTION\t1", "REACTION\t2"}

\* The positions of the script's REACTION lines, in order.
ReactionAt(script) ==
    SelectSeq([i \in 1..Len(script) |-> i], LAMBDA i : script[i].text \in ReactionHeaders)

\* The texts of the non-empty lines of the script from line a to line b.
Texts(script, a, b) ==
    LET part == SelectSeq(SubSeq(script, a, b), LAMBDA l : l.text # "")
    IN  [i \in DOMAIN part |-> part[i].text]

SaveEndUse == <<"SAVE\tSolution\t1", "END", "USE\tSolution\t1">>

\* C12 -- Fixed three-block script protocol: whenever build_phreeqc_input
\* returns, the script holds exactly three reaction blocks in this order:
\* the salts (7 salt lines, 1 step), the acid H3BO3 (1 step), the base NaOH
\* (20 steps, whatever the volumes), with SAVE Solution / END / USE Solution
\* between each consecutive pair of blocks; and the step count is 20.
C12_ThreeBlockProtocol ==
    ScriptBuilt =>
        LET at == ReactionAt(pqi)
        IN  /\ Len(at) = 3
            /\ Texts(pqi, at[1], at[2] - 1) =
                   <<"REACTION\t1", "\tMgCl2\t{:.9f}", "\tCaCl2\t{:.9f}", "\tLiCl\t{:.9f}",
                     "\tMgSO4\t{:.9f}", "\tNaCl\t{:.9f}", "\tKCl\t{:.9f}", "\tNa2SO4\t{:.9f}",
                     "\t{}\tmillimoles\tin \t1\tsteps">> \o SaveEndUse
            /\ Texts(pqi, at[2], at[3] - 1) =
                   <<"REACTION\t2", "\tH3BO3\t1", "\tH2O\t{:.3f}",
                     "\t{:.8f}\tmillimoles\tin \t1\tsteps">> \o SaveEndUse
            /\ Texts(pqi, at[3], Len(pqi)) =
                   <<"REACTION\t2", "\tNaOH\t1", "\tH2O\t{:.4f}",
                     "\t{:.8f}\tmillimoles\tin \t{}\tsteps">>
            /\ pqi[Len(pqi) - 1].nums[2] = 20
            /\ status = 200 => response.n_steps = 20

C12_Witness ==
    /\ ScriptBuilt
    /\ float(d, "NaOH_vol") = 60 /\ float(d, "H3BO3_vol") = 8
    /\ Len(ReactionAt(pqi)) = 3
    /\ pqi[Len(pqi) - 1].nums[2] = 20
    /\ status = 200

(***************************************************************************)
(* Claims about b4b3_ratio                                                 *)
(***************************************************************************)
RatioReturned == pc = "ratio_returned"

\* The six molalities of the row, an absent field counted as 0.
Field(key) == IF key \in DOMAIN boron_row /\ boron_row[key] # <<>>
              THEN boron_row[key][1] ELSE 0

ClaimedNum == Field(KeyM) + Field(KeyP) + Field(KeyQ) + Field(KeyN) + 2 * Field(KeyO)
ClaimedDen == Field(KeyL) + 2 * Field(KeyN) + 2 * Field(KeyO)

\* The denominator, den units of the row's unit, exceeds 1e-30 mol/kgw.
Exceeds1e30(den) ==
    IF boron_unit = "mol/kgw" THEN den >= 1 ELSE den >= 3

\* The fractions a and b are the same number.
SameRatio(a, b) == a[1] * b[2] = b[1] * a[2]

\* C13 -- Boron speciation ratio: b4b3_ratio returns
\* (B(OH)4- + MgB(OH)4+ + CaB(OH)4+ + B3O3(OH)4- + 2 B4O5(OH)4-2) /
\* (B(OH)3 + 2 B3O3(OH)4- + 2 B4O5(OH)4-2) when the denominator exceeds
\* 1e-30 and 0 otherwise, a missing field counted as 0; B(OH)3 = 1 and
\* B(OH)4- = 1 with the others 0 gives 1.0, all-zero fields give 0.0, and
\* the result is never negative for non-negative fields.
C13_BoronRatio ==
    RatioReturned =>
        /\ Exceeds1e30(ClaimedDen) => SameRatio(boron_ratio, <<ClaimedNum, ClaimedDen>>)
        /\ ~Exceeds1e30(ClaimedDen) => SameRatio(boron_ratio, <<0, 1>>)
        /\ (/\ boron_unit = "mol/kgw"
            /\ Field(KeyL) = 1 /\ Field(KeyM) = 1
            /\ \A k \in BoronKeys \ {KeyL, KeyM} : Field(k) = 0)
                => SameRatio(boron_ratio, <<1, 1>>)
        /\ (\A k \in BoronKeys : Field(k) = 0) => SameRatio(boron_ratio, <<0, 1>>)
        /\ boron_ratio[1] >= 0 /\ boron_ratio[2] > 0

\* C13 witness: a denominator above 0 and not above 1e-30 (2 units of
\* 5e-31 mol/kgw) under a positive numerator, fields absent: the ratio is 0.
C13_Witness ==
    /\ RatioReturned
    /\ boron_unit = "5e-31 mol/kgw"
    /\ ClaimedDen = 2 /\ ClaimedNum > 0
    /\ DOMAIN boron_row # BoronKeys
    /\ boron_ratio = <<0, 1>>

(***************************************************************************)
(* Claims about concurrent calculations                                    *)
(***************************************************************************)
\* The statements of calculate in order, and whether a calculation has
\* passed the statement at.
StatementOrder ==
    <<"parse_payload", "ion_full", "params", "build_phreeqc_input", "run_phreeqc",
      "build_recipe", "step_ml", "for_row", "done">>
Position(at) == CHOOSE i \in DOMAIN StatementOrder : StatementOrder[i] = at
Passed(c, at) == Position(calcs[c].pc) > Position(at)

\* What the loop of a calculation running alone holds after n rows.
AloneLoop(rs, n, vol) ==
    for_rows(SubSeq(rs, 1, n), 1,
             [react_count |-> 0, naoh_vol |-> 0, titration |-> <<>>], step_ml(vol))

\* C14 -- Request isolation under concurrency: when two calculations run
\* interleaved statement by statement, each holds after every statement
\* exactly the water mass, ion molalities, script, recipe and titration
\* points it holds when run alone on its payload and its solver rows, and
\* the module-level objects are never written.
C14_RequestIsolation ==
    /\ module = ModuleObjects
    /\ \A c \in Calcs :
        LET f == calcs[c]
        IN  /\ Passed(c, "parse_payload")
                => f.wm = wm_of(f.d) /\ f.ion = ion_of(f.d) /\ f.hyd = hyd_of(f.d)
            /\ Passed(c, "ion_full") => f.ion_full = ion_full_of(f.d)
            /\ Passed(c, "build_phreeqc_input")
                => f.pqi = build_phreeqc_input(ion_of(f.d), params_of(f.d), wm_of(f.d)).pqi
            /\ Passed(c, "build_recipe")
                => f.recipe = build_recipe(ion_of(f.d), hyd_of(f.d))
            /\ f.pc = "for_row"
                => LET alone == AloneLoop(f.rows, f.idx - 1, float(f.d, "NaOH_vol"))
                   IN  /\ f.react_count = alone.react_count
                       /\ f.naoh_vol = alone.naoh_vol
                       /\ f.titration = alone.titration
            /\ f.pc = "done" => f.response = calculate_body(f.d, f.rows)

\* C14 witness: both calculations are inside their loops at different rows,
\* each with points appended, on different payloads and different rows.
C14_Witness ==
    /\ calcs["A"].pc = "for_row" /\ calcs["B"].pc = "for_row"
    /\ calcs["A"].d # calcs["B"].d
    /\ calcs["A"].rows = CanonicalRows /\ calcs["B"].rows = ShortRows
    /\ calcs["A"].idx = 10 /\ calcs["B"].idx = 5
    /\ Len(calcs["A"].titration) = 6 /\ Len(calcs["B"].titration) = 1

\* The two calculations agree on the fields fs of their payloads.
SameFields(fs) == \A k \in fs : calcs["A"].d[k] = calcs["B"].d[k]
BothPassed(at) == Passed("A", at) /\ Passed("B", at)

RecipeArithmetic == {"calc_water_mass", "to_mmol_kgw", "build_recipe"}

\* The PHREEQC environment of the request cannot run a simulation.
SolverUnavailable == solver.raises # ""

\* C16 -- /recipe is solver-free: a /recipe request runs only the
\* arithmetic of parse_payload and build_recipe, never calls run_phreeqc,
\* reads none of the titration parameters (nor B, Br, pH), and whenever
\* parse_payload can read its payload and the water mass is not zero it
\* answers 200 with the recipe and the water mass, whatever the solver
\* would do.
C16_RecipeSolverFree ==
    (Done /\ handler = "recipe_route")
        => /\ phreeqc_calls = 0
           /\ \A s \in Range(arith) : s.op \in RecipeArithmetic
           /\ exc.type = "KeyError" => exc.arg \in ParseFields
           /\ (WellFormed(d, ParseFields) /\ ~to_mmol_kgw_raises(wm_of(d)))
                => /\ status = 200
                   /\ DOMAIN response = {"recipe", "water_mass"}
                   /\ response.recipe = build_recipe(ion_of(d), hyd_of(d))
                   /\ response.water_mass = round_water_mass(wm_of(d))

C16_Witness ==
    /\ Done /\ handler = "recipe_route"
    /\ SolverUnavailable
    /\ "NaOH_vol" \notin DOMAIN d
    /\ status = 200
    /\ DOMAIN response = {"recipe", "water_mass"}
    /\ response.recipe.NaCl.mmol > 0
    /\ phreeqc_calls = 0


(***************************************************************************)
(* The legacy variant: the loop of calculate in src/OLD/app.py (492-511)   *)
(***************************************************************************)
\* The dict the legacy loop appends: the row's own state, and v.
legacy_titration_point(state, v, pH, ratio) ==
    [state |-> state, V_NaOH |-> v,
     pH |-> IF pH # <<>> THEN <<RoundTo(pH[1], pHQuantum)>> ELSE <<>>,
     B4B3 |-> round_ratio(ratio)]

\* One pass of the body of the legacy "for row in rows": an i_soln row is
\* appended at v = 0.0, every react row advances naoh_vol and is appended,
\* a row of any other state is passed over.  There is no react_count.
legacy_classify_row(acc, row, step) ==
    LET state == row_state(row)
        pH    == row_pH(row)
        ratio == b4b3_ratio(row, "mol/kgw")
    IN  IF state = "i_soln" THEN
            [acc EXCEPT !.titration =
                Append(@, legacy_titration_point(state, 0, pH, ratio))]
        ELSE IF state = "react" THEN
            LET vol == next_naoh_vol(acc.naoh_vol, step)
            IN  [naoh_vol |-> vol,
                 titration |-> Append(acc.titration,
                                      legacy_titration_point(state, vol, pH, ratio))]
        ELSE acc

InitLegacy ==
    /\ pc = "legacy_for_row"
    /\ \/ rows \in RowStreams /\ NaOH_vol \in {60, 100}
       \/ rows = CanonicalRows
          /\ \E k \in DOMAIN BaseVolumes : NaOH_vol = BaseVolumes[k]
    /\ idx = 1
    /\ react_count = 0
    /\ naoh_vol = 0
    /\ titration = <<>>
    /\ RecipeIdle
    /\ RequestIdle
    /\ RatioIdle
    /\ ConcIdle

\* One iteration of the legacy "for row in rows".
LegacyClassifyRow ==
    /\ pc = "legacy_for_row"
    /\ idx <= Len(rows)
    /\ LET acc == legacy_classify_row([naoh_vol |-> naoh_vol, titration |-> titration],
                                      rows[idx], step_ml(NaOH_vol))
       IN  /\ naoh_vol' = acc.naoh_vol
           /\ titration' = acc.titration
    /\ idx' = idx + 1
    /\ pc' = IF idx = Len(rows) THEN "legacy_classified" ELSE "legacy_for_row"
    /\ UNCHANGED <<rows, NaOH_vol, react_count>>
    /\ UNCHANGED recipeVars
    /\ UNCHANGED requestVars
    /\ UNCHANGED <<ratioVars, concVars>>

NextLegacy == LegacyClassifyRow

SpecLegacy == InitLegacy /\ [][NextLegacy]_vars

(***************************************************************************)
(* Claims about the legacy variant                                         *)
(***************************************************************************)
LegacyCanonicalDone == pc = "legacy_classified" /\ rows = CanonicalRows

\* C17 -- The legacy variant obeys the same classification rule: for the
\* stream of 1 i_soln row, 2 react rows and 20 react rows the legacy loop
\* returns exactly 20 points, none of them for the i_soln row or for the
\* first two react rows, the first at cumulative volume NaOH_vol / 20.
C17_LegacySameRule ==
    LegacyCanonicalDone =>
        /\ Len(titration) = 20
        /\ \A i \in 1..Len(titration) : titration[i].state # "i_soln"
        /\ titration = ExpectedPoints(rows, NaOH_vol)
        /\ 20 * titration[1].V_NaOH = NaOH_vol


(***************************************************************************)
(* Claims about the sodium of the recipe                                   *)
(***************************************************************************)
\* The Na2SO4 path, entered with non-negative molalities.
Na2SO4Path ==
    /\ Returned
    /\ NonNegative(ion_mmol_kgw)
    /\ ion_mmol_kgw.SO4 > ion_mmol_kgw.Mg

\* The sodium the salts of the recipe hold: NaCl + 2 * Na2SO4.
RecipeSodium == locals.mmol.NaCl + 2 * locals.mmol.Na2SO4

\* C18 as claimed -- for all non-negative ion molalities with SO4 > Mg the
\* recipe conserves sodium: NaCl + 2 * Na2SO4 = Na.
C18_SodiumConserved ==
    Na2SO4Path => RecipeSodium = ion_mmol_kgw.Na

\* C18 as amended -- for all non-negative ion molalities with SO4 > Mg,
\* Na2SO4 = SO4 and NaCl + 2 * Na2SO4 = max(Na, 2 * SO4): sodium is
\* conserved exactly when Na >= 2 * SO4; when Na < 2 * SO4 NaCl is clamped
\* to 0 and the recipe holds 2 * SO4 - Na more sodium than the sample.
C18_SodiumStoichiometry ==
    Na2SO4Path =>
        LET ion == ion_mmol_kgw
        IN  /\ locals.mmol.Na2SO4 = ion.SO4
            /\ RecipeSodium = Max(ion.Na, 2 * ion.SO4)
            /\ ion.Na >= 2 * ion.SO4 => RecipeSodium = ion.Na
            /\ ion.Na < 2 * ion.SO4
                  => /\ locals.mmol.NaCl = 0
                     /\ RecipeSodium - ion.Na = 2 * ion.SO4 - ion.Na

\* C18 witness: the Na2SO4 path with sodium left over for NaCl.
C18_Witness ==
    /\ Na2SO4Path
    /\ ion_mmol_kgw.Na > 2 * ion_mmol_kgw.SO4
    /\ locals.mmol.Na2SO4 > 0
    /\ locals.mmol.NaCl > 0
    /\ RecipeSodium = ion_mmol_kgw.Na


(***************************************************************************)
(* build_recipe: the hydration water  (app.py lines 166-184, 194)          *)
(*                                                                         *)
(* Molalities here are whole mol/kgw (1000 mmol/kgw), so that the water of *)
(* the hydrates reaches the 1000 g of the baseline; masses are in 1e-5 g.  *)
(***************************************************************************)
J18(hyd) == IF is_anhydrous(hyd, "MgCl2")  THEN 0 ELSE 1
J19(hyd) == IF is_anhydrous(hyd, "CaCl2")  THEN 0 ELSE 1
J20(hyd) == IF is_anhydrous(hyd, "MgSO4")  THEN 0 ELSE 1
J21(hyd) == IF is_anhydrous(hyd, "Na2SO4") THEN 0 ELSE 1

\* C * n * Q10 / 1000, the division a change of unit from mmol to mol
I18(ion) == C12(ion) * 6  * Q10
I19(ion) == C13(ion) * 2  * Q10
I20(ion) == C15(ion) * 7  * Q10
I21(ion) == C18(ion) * 10 * Q10

\* I16 = 1000.0 g, in 1e-5 g
I16 == 100000000
I17(ion, hyd) ==
    I16 - J18(hyd) * I18(ion) - J19(hyd) * I19(ion)
        - J20(hyd) * I20(ion) - J21(hyd) * I21(ion)

water_g_unclamped(ion, hyd) == I17(ion, hyd)
water_g(ion, hyd) == Max(0, I17(ion, hyd))

\* round(water_g, 2): the second decimal of a mass in g, in 1e-5 g
WaterGramQuantum == 1000

\* round(water_g / Q10, 2), in hundredths: the quotient by long division
water_mmol_2f(ion, hyd) ==
    LET w == water_g(ion, hyd)
    IN  100 * (w \div Q10) + FDiv(100 * (w % Q10), Q10)

\* The 'H2O' entry of the returned dict.
water_entry(ion, hyd) ==
    [mmol |-> water_mmol_2f(ion, hyd),
     g |-> RoundTo(water_g(ion, hyd), WaterGramQuantum),
     mw |-> RoundTo(Q10, MwQuantum), form |-> "liquid"]

\* The locals of build_recipe the water is computed from and into.
water_locals(ion, hyd) ==
    [mmol |-> [MgCl2 |-> C12(ion), CaCl2 |-> C13(ion), LiCl |-> C14(ion),
               MgSO4 |-> C15(ion), NaCl |-> C16(ion), KCl |-> C17(ion),
               Na2SO4 |-> C18(ion)],
     I17 |-> I17(ion, hyd),
     water_g |-> water_g(ion, hyd)]

\* Mg and SO4 range over -1..MaxMol mol/kgw, Ca over three values.
MaxMol == 10
WaterIonInputs ==
    [Na : {1}, K : {1}, Li : {1},
     Mg : (0 - 1)..MaxMol, SO4 : (0 - 1)..MaxMol, Ca : {0 - 1, 0, MaxMol}]

InitWater ==
    /\ pc = "hydration_water"
    /\ ion_mmol_kgw \in WaterIonInputs
    /\ hydration \in HydInputs
    /\ locals = NoLocals
    /\ recipe = None
    /\ LoopIdle
    /\ RequestIdle
    /\ RatioIdle
    /\ ConcIdle

\* A call of build_recipe, for its water: the 'H2O' entry of its result.
\* (The seven salt entries are those of BuildRecipe.)
HydrationWater ==
    /\ pc = "hydration_water"
    /\ locals' = water_locals(ion_mmol_kgw, hydration)
    /\ recipe' = [H2O |-> water_entry(ion_mmol_kgw, hydration)]
    /\ pc' = "water_returned"
    /\ UNCHANGED <<ion_mmol_kgw, hydration>>
    /\ UNCHANGED loopVars
    /\ UNCHANGED requestVars
    /\ UNCHANGED <<ratioVars, concVars>>

NextWater == HydrationWater

SpecWater == InitWater /\ [][NextWater]_vars

(***************************************************************************)
(* Claims about the hydration water                                        *)
(***************************************************************************)
WaterReturned == pc = "water_returned"

\* The form chosen for a salt (the 'form' build_recipe returns for it).
ChosenForm(s) == Get(hydration, s, "Anhydrous")

\* hydrate-number x 18.01528 x salt molality / 1000, in 1e-5 g
WaterOfCrystallisation(s) == HydrationNumber[s] * Q10 * locals.mmol[s]

RECURSIVE SumOver(_, _)
SumOver(S, f) ==
    IF S = {} THEN 0
    ELSE LET s == CHOOSE x \in S : TRUE
         IN  f[s] + SumOver(S \ {s}, f)

\* The water the hydrated salts of the recipe bring.
HydrateWater ==
    SumOver({s \in HydSalts : ChosenForm(s) # "Anhydrous"},
            [s \in HydSalts |-> WaterOfCrystallisation(s)])

\* C19 -- Water budget: free water in grams is max(0, 1000 - the sum over
\* the salts whose chosen form is not 'Anhydrous' of hydrate-number x
\* 18.01528 x molality / 1000), hydrate numbers MgCl2 6, CaCl2 2, MgSO4 7,
\* Na2SO4 10; salts chosen anhydrous contribute nothing; 0 <= free water <=
\* 1000 g for every input; the second value reported is grams / 18.01528
\* (to 2 decimals, as the grams are).
C19_WaterBudget ==
    WaterReturned =>
        LET w == locals.water_g
            whole == w \div Q10
            rest  == w % Q10
        IN  /\ w = Max(0, I16 - HydrateWater)
            /\ (\A s \in HydSalts : ChosenForm(s) = "Anhydrous") => w = I16
            /\ 0 <= w /\ w <= I16
            /\ 2 * Abs(recipe.H2O.g - w) <= WaterGramQuantum
            /\ 2 * Abs((recipe.H2O.mmol - 100 * whole) * Q10 - 100 * rest) <= Q10

\* C19 witness: hydrates that take more than the 1000 g, free water 0.
C19_Witness ==
    /\ WaterReturned
    /\ HydrateWater > I16
    /\ locals.I17 < 0
    /\ locals.water_g = 0
    /\ recipe.H2O.g = 0 /\ recipe.H2O.mmol = 0
    /\ ChosenForm("CaCl2") = "Anhydrous" /\ locals.mmol.CaCl2 > 0


(***************************************************************************)
(* Claims about the agreement of recipe and script                         *)
(***************************************************************************)
\* The salts in the order of the lines of REACTION 1.
SaltOrder == <<"MgCl2", "CaCl2", "LiCl", "MgSO4", "NaCl", "KCl", "Na2SO4">>

\* The k-th salt line of the script's first reaction block.
SaltLine(script, k) == script[ReactionAt(script)[1] + k]

\* The unrounded salt molalities build_recipe computes for the request.
RecipeMolality(s) == build_recipe_locals(ion_of(d), hyd_of(d)).mmol[s]

\* C20 as claimed -- the seven amounts of the salt-dissolution block equal
\* the unrounded salt molalities of build_recipe for the same input, each
\* divided by 200, in the order MgCl2, CaCl2, LiCl, MgSO4, NaCl, KCl, Na2SO4.
C20_AmountsAreMolalitiesOver200 ==
    ScriptBuilt =>
        \A k \in DOMAIN SaltOrder :
            /\ SaltLine(pqi, k).text = "\t" \o SaltOrder[k] \o "\t{:.9f}"
            /\ SaltLine(pqi, k).nums = <<over_RF(RecipeMolality(SaltOrder[k]))>>

\* C20 as amended -- the seven amounts of the salt-dissolution block are
\* the unrounded salt molalities of build_recipe for the same input, each
\* divided by 200 and printed with 9 decimals (so within 5e-10 of the
\* quotient, and equal to it when it has no more than 9 decimals), in the
\* order MgCl2, CaCl2, LiCl, MgSO4, NaCl, KCl, Na2SO4; both functions
\* select the same sulfate path.
C20_RecipeScriptAgreement ==
    ScriptBuilt =>
        /\ \A k \in DOMAIN SaltOrder :
            LET exact == over_RF(RecipeMolality(SaltOrder[k]))
                shown == SaltLine(pqi, k).nums[1]
            IN  /\ SaltLine(pqi, k).text = "\t" \o SaltOrder[k] \o "\t{:.9f}"
                /\ Len(SaltLine(pqi, k).nums) = 1
                /\ shown % AmountQuantum = 0
                /\ 2 * Abs(shown - exact) <= AmountQuantum
                /\ exact % AmountQuantum = 0 => shown = exact
        /\ (SaltLine(pqi, 4).nums[1] > 0) = (RecipeMolality("MgSO4") > 0)
        /\ (SaltLine(pqi, 7).nums[1] > 0) = (RecipeMolality("Na2SO4") > 0)

\* C20 witness: a script on the Na2SO4 path whose Na2SO4 amount has more
\* than 9 decimals before it is printed.
C20_Witness ==
    /\ ScriptBuilt
    /\ RecipeMolality("Na2SO4") > 0
    /\ RecipeMolality("MgSO4") = 0
    /\ over_RF(RecipeMolality("Na2SO4")) % AmountQuantum # 0
    /\ SaltLine(pqi, 7).nums[1] # over_RF(RecipeMolality("Na2SO4"))
    /\ SaltLine(pqi, 7).nums[1] > 0
    /\ SaltLine(pqi, 4).nums[1] = 0


(***************************************************************************)
(* Claims about the acid and base blocks of the script                     *)
(***************************************************************************)
\* The H2O line and the amount line of the script's n-th reaction block.
WaterLine(script, n)  == script[ReactionAt(script)[n] + 2]
AmountLine(script, n) == script[ReactionAt(script)[n] + 3]

\* shown is num / den to the nearest unit.
Nearest(shown, num, den) == 2 * Abs(shown * den - num) <= Abs(den)

\* The amounts of both blocks are total mmol / kgw with 8 decimals, kgw =
\* sample_vol * water_mass / 1000.
AmountsNormalised ==
    LET p   == params_of(d)
        kgw == float(d, "sample_vol") * wm_of(d)
    IN  /\ AmountLine(pqi, 2).text = "\t{:.8f}\tmillimoles\tin \t1\tsteps"
        /\ AmountLine(pqi, 3).text = "\t{:.8f}\tmillimoles\tin \t{}\tsteps"
        /\ Nearest(AmountLine(pqi, 2).nums[1], 400 * p.H3BO3_conc * p.H3BO3_vol, kgw)
        /\ Nearest(AmountLine(pqi, 3).nums[1], 400 * p.NaOH_conc * p.NaOH_vol, kgw)
        /\ (p.H3BO3_conc = p.NaOH_conc /\ p.H3BO3_vol = p.NaOH_vol)
              => AmountLine(pqi, 2).nums[1] = AmountLine(pqi, 3).nums[1]

\* C21 as claimed -- with kgw = sample_vol x water_mass / 1000 the acid
\* amount is H3BO3_conc x H3BO3_vol / kgw, the base amount NaOH_conc x
\* NaOH_vol / kgw, the water ratios 55.5556 / H3BO3_conc and 55.5556 /
\* NaOH_conc; amount and water ratio are rendered identically for the two
\* blocks (the same format, and the same number at the same concentration).
C21_RenderedIdentically ==
    ScriptBuilt =>
        /\ AmountsNormalised
        /\ WaterLine(pqi, 2).text = WaterLine(pqi, 3).text
        /\ float(d, "H3BO3_conc") = float(d, "NaOH_conc")
              => WaterLine(pqi, 2).nums = WaterLine(pqi, 3).nums

\* C21 as amended -- the amounts are as claimed, both printed with 8
\* decimals; the water ratios are 55.5556 / H3BO3_conc printed with 3
\* decimals in the acid block and 55.5556 / NaOH_conc printed with 4
\* decimals in the base block, so at one concentration the two printed
\* ratios differ by less than 5e-4.
C21_OneNormalization ==
    ScriptBuilt =>
        LET p == params_of(d)
        IN  /\ AmountsNormalised
            /\ WaterLine(pqi, 2).text = "\tH2O\t{:.3f}"
            /\ WaterLine(pqi, 3).text = "\tH2O\t{:.4f}"
            /\ Nearest(WaterLine(pqi, 2).nums[1], WaterPerLitre, p.H3BO3_conc)
            /\ Nearest(WaterLine(pqi, 3).nums[1], 10 * WaterPerLitre, p.NaOH_conc)
            /\ p.H3BO3_conc = p.NaOH_conc
                  => Abs(10 * WaterLine(pqi, 2).nums[1] - WaterLine(pqi, 3).nums[1]) <= 5

\* C21 witness: 0.3 mol/L acid and base, equal volumes: one amount in both
\* blocks, the water ratio 185.185 in the acid block and 185.1853 in the
\* base block.
C21_Witness ==
    /\ ScriptBuilt
    /\ float(d, "H3BO3_conc") = 3 /\ float(d, "NaOH_conc") = 3
    /\ AmountLine(pqi, 2).nums[1] = AmountLine(pqi, 3).nums[1]
    /\ AmountLine(pqi, 2).nums[1] > 0
    /\ WaterLine(pqi, 2).nums = <<185185>>
    /\ WaterLine(pqi, 3).nums = <<1851853>>


(***************************************************************************)
(* calc_water_mass on its own  (app.py lines 68-72)                        *)
(***************************************************************************)
\* Densities of 0..MaxDensity twentieths of a kg/L; TDS of 0..MaxTdsStep
\* times 50 (g/L or g/kgs); the two units of the page, and other values.
MaxDensity == 30
MaxTdsStep == 44
TdsUnits == {Str("g/L"), Str("g/kgs"), Str("g/l"), Str("mg/L"), Str(""), Num(1)}

\* The arguments whose water mass is a whole number of twentieths.
WaterMassArgs ==
    {a \in [density : 0..MaxDensity, tds : {50 * k : k \in 0..MaxTdsStep},
            tds_unit : TdsUnits] :
        a.tds_unit # Str("g/L") => (a.tds * a.density) % 1000 = 0}

InitWaterMass ==
    /\ pc = "calc_water_mass"
    /\ d \in WaterMassArgs
    /\ response = None
    /\ handler = None /\ solver = None /\ exc = None
    /\ arith = <<>> /\ phreeqc_calls = 0 /\ pqi = None /\ status = 0
    /\ RecipeIdle
    /\ LoopIdle
    /\ RatioIdle
    /\ ConcIdle

\* A call of calc_water_mass(density, tds, tds_unit).
CalcWaterMass ==
    /\ pc = "calc_water_mass"
    /\ response' = calc_water_mass(d.density, d.tds, d.tds_unit)
    /\ pc' = "water_mass_returned"
    /\ UNCHANGED <<handler, d, solver, exc, arith, phreeqc_calls, pqi, status>>
    /\ UNCHANGED <<recipeVars, loopVars>>
    /\ UNCHANGED <<ratioVars, concVars>>

NextWaterMass == CalcWaterMass

SpecWaterMass == InitWaterMass /\ [][NextWaterMass]_vars

(***************************************************************************)
(* Claims about calc_water_mass                                            *)
(***************************************************************************)
WaterMassReturned == pc = "water_mass_returned"

\* C22 -- Water mass formula: calc_water_mass returns (1000 * density -
\* tds) / 1000 when tds_unit is exactly 'g/L' and (1000 * density - tds *
\* density) / 1000 for every other tds_unit ('g/kgs' or anything else); the
\* result is returned as computed, zero, negative or above the density.
C22_WaterMassFormula ==
    WaterMassReturned =>
        /\ d.tds_unit = Str("g/L")
              => 1000 * response = 1000 * d.density - WmScale * d.tds
        /\ d.tds_unit # Str("g/L")
              => 1000 * response = 1000 * d.density - d.tds * d.density

\* C22 witness: 'g/l' is not 'g/L': density 1.0 and tds 1200 'g/l' give
\* 1.0 - 1.2 = -0.2 kgw/L by the second formula, returned as it is.
C22_Witness ==
    /\ WaterMassReturned
    /\ d.tds_unit = Str("g/l")
    /\ d.density = WmScale /\ d.tds = 1200
    /\ response = 0 - 4


(***************************************************************************)
(* Claims about the steps of the script and the rows of the classifier     *)
(***************************************************************************)
\* The amount lines that schedule a single step.
SingleStepLines ==
    {"\t{}\tmillimoles\tin \t1\tsteps", "\t{:.8f}\tmillimoles\tin \t1\tsteps"}

\* The steps the script's n-th reaction block schedules: the line that ends
\* the block (the seven salts come first in block 1).
StepsLine(script, n) == script[ReactionAt(script)[n] + (IF n = 1 THEN 9 ELSE 3)]
StepsScheduled(script, n) ==
    LET line == StepsLine(script, n)
    IN  IF line.text \in SingleStepLines THEN 1 ELSE line.nums[Len(line.nums)]

\* The solver answered with one i_soln row and then one react row for each
\* step the script schedules.
OneRowPerStep ==
    /\ phreeqc_calls = 1 /\ solver.raises = ""
    /\ Len(solver.rows) =
          1 + StepsScheduled(pqi, 1) + StepsScheduled(pqi, 2) + StepsScheduled(pqi, 3)
    /\ solver.rows[1].state = "i_soln"
    /\ \A i \in 2..Len(solver.rows) : solver.rows[i].state = "react"

\* The react rows of the solver's answer that yield no point.
Discarded ==
    Len(SelectSeq(solver.rows, LAMBDA row : row.state = "react"))
        - Len(response.titration)

\* C23 -- Script/classifier step agreement: the react rows the classifier
\* discards (2) are as many as the steps the script schedules before the
\* base block (1 for the salts + 1 for the acid), so with a solver that
\* emits one react row per scheduled step the number of titration points
\* equals the n_steps (20) of the same response.
C23_StepAgreement ==
    (ScriptBuilt /\ status = 200 /\ OneRowPerStep)
        => /\ StepsScheduled(pqi, 1) = 1 /\ StepsScheduled(pqi, 2) = 1
           /\ Discarded = StepsScheduled(pqi, 1) + StepsScheduled(pqi, 2)
           /\ StepsScheduled(pqi, 3) = response.n_steps
           /\ Len(response.titration) = response.n_steps
           /\ response.n_steps = 20

C23_Witness ==
    /\ ScriptBuilt /\ status = 200 /\ OneRowPerStep
    /\ Len(solver.rows) = 23
    /\ Discarded = 2
    /\ Len(response.titration) = 20
    /\ response.n_steps = 20


(***************************************************************************)
(* The sulfate path of one sample at two water masses: to_mmol_kgw on Mg   *)
(* and SO4 (lines 81-82, 471-473), then the flag A18 (lines 131-132).      *)
(* Each quotient is rounded to its unit, as a float quotient is to its     *)
(* last bit; the concentrations here do not keep the quotients exact.      *)
(***************************************************************************)
\* mg/L of Mg and SO4: the atomic weight times 0..MaxLevel.
MaxLevel == 12
Concentrations(MW) == {MW * level : level \in 0..MaxLevel}

\* Positive water masses, up to 1.3 kgw/L.
MaxWaterMass == 26
PositiveWaterMasses == 1..MaxWaterMass

PathFrame(Mg, SO4, wm) ==
    [pc |-> "select_path", Mg |-> Mg, SO4 |-> SO4, wm |-> wm,
     ion |-> <<>>, A18 |-> <<>>]

InitPath ==
    /\ pc = "paths"
    /\ \E Mg \in Concentrations(Q6), SO4 \in Concentrations(Q8) :
          calcs \in [Calcs -> {PathFrame(Mg, SO4, wm) : wm \in PositiveWaterMasses}]
    /\ module = None
    /\ RecipeIdle
    /\ LoopIdle
    /\ RequestIdle
    /\ RatioIdle

\* The Mg and SO4 entries of parse_payload's ion, and build_recipe's A18.
SelectPath(c) ==
    /\ At(c, "select_path")
    /\ LET f   == calcs[c]
           ion == [Mg  |-> to_mmol_kgw(f.Mg, Q6, f.wm),
                   SO4 |-> to_mmol_kgw(f.SO4, Q8, f.wm)]
       IN  Becomes(c, [f EXCEPT !.pc = "selected", !.ion = <<ion>>,
                                !.A18 = <<A18(ion)>>])

NextPath == \E c \in Calcs : SelectPath(c)

SpecPath == InitPath /\ [][NextPath]_vars

(***************************************************************************)
(* Claims about the path and the water mass                                *)
(***************************************************************************)
\* a / b > c / e for a, c >= 0 and b, e > 0, by continued fractions.
RECURSIVE FractionGreater(_, _, _, _)
FractionGreater(a, b, c, e) ==
    IF a \div b # c \div e THEN a \div b > c \div e
    ELSE IF a % b = 0 THEN FALSE
    ELSE IF c % e = 0 THEN TRUE
    ELSE FractionGreater(e, c % e, b, a % b)

BothSelected == pc = "paths" /\ \A c \in Calcs : calcs[c].pc = "selected"

\* SO4_mg / 32.02 > Mg_mg / 24.305
SulfateExceedsMagnesium(f) == FractionGreater(f.SO4, Q8, f.Mg, Q6)

\* The molalities SO4_mg / wm / 32.02 and Mg_mg / wm / 24.305 are more than
\* two units apart: more than the roundings can bridge.
Apart(f) ==
    \/ FractionGreater(f.SO4, Q8, f.Mg + 2 * f.wm * Q6, Q6)
    \/ FractionGreater(f.Mg, Q6, f.SO4 + 2 * f.wm * Q8, Q8)

C25_MgSO4Conservation ==
    (Returned /\ NonNegative(ion_mmol_kgw)) =>
        LET ion == ion_mmol_kgw
            m   == locals.mmol
        IN  /\ m.MgCl2 + m.MgSO4 = ion.Mg
            /\ m.MgSO4 + m.Na2SO4 = ion.SO4
            /\ ion.Mg - ion.SO4 * A15(ion) >= 0
            /\ m.MgCl2 = ion.Mg - ion.SO4 * A15(ion)

\* C25 witness: the MgSO4 path with magnesium left over for MgCl2.
C25_Witness ==
    /\ Returned /\ NonNegative(ion_mmol_kgw)
    /\ ion_mmol_kgw.SO4 > 0
    /\ ion_mmol_kgw.Mg > ion_mmol_kgw.SO4
    /\ locals.mmol.MgSO4 = ion_mmol_kgw.SO4
    /\ locals.mmol.MgCl2 = ion_mmol_kgw.Mg - ion_mmol_kgw.SO4
    /\ locals.mmol.Na2SO4 = 0

====
